---- MODULE Spec2Model ----
(***************************************************************************)
(* A model of cdpgen (cmd/cdpgen/main.go): the generator that reads two    *)
(* protocol documents, merges and sorts their domains and emits the cdp,   *)
(* cdptype, cdpcmd and cdpevent packages, together with the behaviour of   *)
(* the code it generates (enumerated types, fluent setters).               *)
(*                                                                         *)
(* Go strings are TLA+ strings; bytes.Buffer contents are sequences of     *)
(* chunks, one chunk per declaration a Printf template emits.              *)
(***************************************************************************)
EXTENDS Integers, Sequences, FiniteSets, TLC

VARIABLES
    phase,        \* where main is: "flags", "readBrowser", ..., "run", "done", "exit", "panic"
    calls,        \* the calls main makes on the merged domains, in order
    ip,           \* index of the next call of calls while phase = "run"
    destPkg,      \* the -dest-pkg flag
    protocolData, \* what ioutil.ReadFile returned for -browser-proto
    jsProtocolData,
    protocol,     \* proto.Protocol decoded from protocolData: [Domains |-> ...]
    jsProtocol,
    nonPtrMap,    \* the keys of the global nonPtrMap that map to true
    gens,         \* the Generators g, tg, cg, eg: pkg, dir, imports, buf, hasContent, hasHeader
    dirs,         \* directories os.Mkdir was called for
    writes,       \* the ioutil.WriteFile calls that succeeded, in order
    logs,         \* what log.Printf printed, in order
    fmtFailures,  \* how many times format.Source has rejected a buffer
    cause,        \* why the process stopped early: "" while it has not
    enumType,     \* runtime of a generated enumerated type: its declaration
    e,            \* the enum value the generated methods act on
    target,       \* the enum value UnmarshalJSON decodes into
    data,         \* the wire bytes last produced or received
    err,          \* the error the last generated method returned ("" for nil)
    lastOp,       \* the generated method last called
    rawType,      \* runtime of a generated opaque-payload type: its declaration
    m,            \* the opaque value the generated methods act on
    recvDecl,     \* runtime of a generated event client: its declaration
    stream,       \* the rpcc.Stream the event client wraps
    event         \* what Recv last returned as its event

genVars == <<phase, calls, ip, destPkg, protocolData, jsProtocolData, protocol, jsProtocol,
             nonPtrMap, gens, dirs, writes, logs, fmtFailures, cause>>
enumVars == <<enumType, e, target>>
rawVars == <<rawType, m>>
recvVars == <<recvDecl, stream, event>>
rtVars == <<enumVars, rawVars, recvVars, data, err, lastOp>>
vars == <<genVars, rtVars>>

(***************************************************************************)
(* Bounds of the model.                                                    *)
(***************************************************************************)
\* The two documents hold at most this many domains together.
MaxDomains == 2
\* format.Source rejects at most this many buffers in one run.
MaxFormatFailures == 1
\* An enumerated type declares at most this many labels.
MaxLabels == 2
\* The peer sends at most this many messages on one event stream.
MaxMessages == 3

(***************************************************************************)
(* Go strings.                                                             *)
(***************************************************************************)
\* The ASCII characters names and labels are made of, in byte order.
Ascii == "-.0123456789<ABCDEFGHIJKLMNOPQRSTUVWXYZ_abcdefghijklmnopqrstuvwxyz"
Upper == "ABCDEFGHIJKLMNOPQRSTUVWXYZ"
Lower == "abcdefghijklmnopqrstuvwxyz"

IndexIn(alphabet, c) ==
    IF \E i \in 1..Len(alphabet) : SubSeq(alphabet, i, i) = c
    THEN CHOOSE i \in 1..Len(alphabet) : SubSeq(alphabet, i, i) = c
    ELSE 0

\* The byte value order of one-character strings.
Byte(c) == IndexIn(Ascii, c)

\* Go's a < b on strings: bytewise lexicographic.
RECURSIVE StrLess(_, _)
StrLess(a, b) ==
    IF Len(b) = 0 THEN FALSE
    ELSE IF Len(a) = 0 THEN TRUE
    ELSE IF Byte(SubSeq(a, 1, 1)) # Byte(SubSeq(b, 1, 1))
         THEN Byte(SubSeq(a, 1, 1)) < Byte(SubSeq(b, 1, 1))
         ELSE StrLess(SubSeq(a, 2, Len(a)), SubSeq(b, 2, Len(b)))

\* strings.HasPrefix
HasPrefix(s, p) == Len(s) >= Len(p) /\ SubSeq(s, 1, Len(p)) = p

LowerChar(c) == IF IndexIn(Upper, c) > 0
                THEN SubSeq(Lower, IndexIn(Upper, c), IndexIn(Upper, c)) ELSE c
UpperChar(c) == IF IndexIn(Lower, c) > 0
                THEN SubSeq(Upper, IndexIn(Lower, c), IndexIn(Lower, c)) ELSE c

\* strings.ToLower
RECURSIVE ToLower(_)
ToLower(s) == IF Len(s) = 0 THEN ""
              ELSE LowerChar(SubSeq(s, 1, 1)) \o ToLower(SubSeq(s, 2, Len(s)))

\* strings.Title on a single word: its first letter in upper case.
Title(s) == IF Len(s) = 0 THEN "" ELSE UpperChar(SubSeq(s, 1, 1)) \o SubSeq(s, 2, Len(s))

(***************************************************************************)
(* The schema model (package proto).  A proto.AnyType is a declared type   *)
(* (IDName set) or a property, parameter or return (NameName set).         *)
(***************************************************************************)
AnyType(id, name, type) ==
    [IDName |-> id, NameName |-> name, Type |-> type, Ref |-> "", Optional |-> FALSE,
     Enum |-> <<>>, Properties |-> <<>>, Items |-> <<>>]

TypeDef(id, type) == AnyType(id, "", type)
Prop(name, type) == AnyType("", name, type)
RefProp(name, ref) == [AnyType("", name, "") EXCEPT !.Ref = ref]
Opt(p) == [p EXCEPT !.Optional = TRUE]
WithEnum(t, labels) == [t EXCEPT !.Enum = labels]
WithProps(t, props) == [t EXCEPT !.Properties = props]
ArrayOf(t, item) == [t EXCEPT !.Type = "array", !.Items = <<item>>]

Command(name, params, returns) ==
    [NameName |-> name, Parameters |-> params, Returns |-> returns]
Event(name, params) == [NameName |-> name, Parameters |-> params]
ProtoDomain(name, types, commands, events) ==
    [Domain |-> name, Types |-> types, Commands |-> commands, Events |-> events]

\* A domain with no types, whose only command takes and returns nothing.
DomCSS ==
    ProtoDomain("CSS", <<>>, <<Command("disable", <<>>, <<>>)>>, <<>>)

\* A domain of types: an alias, a self-referential record, an array, an
\* enumeration and an opaque payload.
DomDOM ==
    ProtoDomain("DOM",
        <<TypeDef("NodeId", "integer"),
          WithProps(TypeDef("Node", "object"),
              <<RefProp("nodeId", "NodeId"),
                Opt(RefProp("parent", "Node")),
                RefProp("owner", "Node"),
                Opt(RefProp("frame", "Page.Frame"))>>),
          ArrayOf(TypeDef("Quad", ""), Prop("", "number")),
          WithEnum(TypeDef("PseudoType", "string"), <<"first-line", "before">>),
          TypeDef("Blob", "object")>>,
        <<Command("getDocument", <<Opt(Prop("depth", "integer"))>>,
                                 <<RefProp("root", "Node")>>)>>,
        <<Event("documentUpdated", <<>>)>>)

\* A domain of commands with optional parameters of every kind.
DomPage ==
    ProtoDomain("Page",
        <<WithProps(TypeDef("Frame", "object"),
              <<Prop("id", "string"), Opt(Prop("parentId", "string"))>>)>>,
        <<Command("reload",
              <<Opt(Prop("ignoreCache", "boolean")),
                Opt(Prop("scriptToEvaluateOnLoad", "string"))>>, <<>>),
          Command("enable", <<>>, <<>>),
          Command("search",
              <<RefProp("frameId", "Frame"),
                Opt(RefProp("node", "DOM.Node")),
                Opt(RefProp("pseudo", "DOM.PseudoType")),
                Opt(WithEnum(Prop("type", "string"), <<"jpeg", "png">>)),
                Opt(ArrayOf(Prop("quads", ""), RefProp("", "DOM.Quad"))),
                Opt(RefProp("quad", "DOM.Quad")),
                Opt(RefProp("blob", "DOM.Blob")),
                Opt(Prop("extra", "any"))>>,
              <<Prop("count", "integer")>>)>>,
        <<Event("frameNavigated", <<RefProp("frame", "Frame")>>)>>)

\* A second document's domain that reuses the name Page.
DomPageJS ==
    ProtoDomain("Page", <<>>, <<>>, <<Event("loaded", <<Opt(Prop("timestamp", "number"))>>)>>)

\* A domain declaring an enumeration whose primitive kind is not string.
DomDebugger ==
    ProtoDomain("Debugger",
        <<WithEnum(TypeDef("Level", "integer"), <<"1", "2">>)>>,
        <<Command("pause", <<>>, <<>>)>>, <<>>)

DomainUniverse == {DomCSS, DomDOM, DomPage, DomPageJS, DomDebugger}

\* The sequences of length n over S without repetition.
RECURSIVE InjSeqs(_, _)
InjSeqs(S, n) ==
    IF n = 0 THEN {<<>>}
    ELSE UNION {{Append(q, x) : x \in S \ {q[i] : i \in 1..Len(q)}} : q \in InjSeqs(S, n - 1)}

\* The domain lists one document can hold: no domain twice.
Documents == UNION {InjSeqs(DomainUniverse, n) : n \in 0..MaxDomains}

\* What ioutil.ReadFile can return for a path that exists: a well-formed
\* document, or bytes json.Unmarshal rejects.
FileContents == {[ok |-> TRUE, Domains |-> ds] : ds \in Documents}
                \cup {[ok |-> FALSE, Domains |-> <<>>]}

(***************************************************************************)
(* Accessors of package proto.                                             *)
(***************************************************************************)
DomainName(d) == d.Domain

\* The position of the first "." of s, 0 when there is none.
DotIndex(s) == IndexIn(s, ".")

\* The declared name a $ref resolves to: "DOM.Node" and, inside DOM, "Node"
\* both name the type DOMNode.
RefName(d, ref) ==
    IF DotIndex(ref) > 0
    THEN SubSeq(ref, 1, DotIndex(ref) - 1) \o SubSeq(ref, DotIndex(ref) + 1, Len(ref))
    ELSE DomainName(d) \o ref

\* AnyType.Name
Name(d, t) == IF t.IDName # "" THEN DomainName(d) \o t.IDName ELSE t.NameName

\* AnyType.ExportedName
ExportedName(d, t) == Title(t.NameName)

\* AnyType.IsEnum
IsEnum(t) == Len(t.Enum) > 0

\* AnyType.GoType
RECURSIVE GoType(_, _, _)
GoType(pkg, d, t) ==
    IF t.Ref # ""
    THEN IF pkg = "cdptype" THEN RefName(d, t.Ref) ELSE "cdptype." \o RefName(d, t.Ref)
    ELSE CASE t.Type = "any" -> "json.RawMessage"
           [] t.Type = "array" -> "[]" \o GoType(pkg, d, t.Items[1])
           [] t.Type = "boolean" -> "bool"
           [] t.Type = "integer" -> IF IsEnum(t) /\ t.IDName # "" THEN "enum" ELSE "int"
           [] t.Type = "number" -> "float64"
           [] t.Type = "object" ->
                IF Len(t.Properties) > 0 THEN "struct"
                ELSE IF t.IDName # "" THEN "RawMessage" ELSE "json.RawMessage"
           [] t.Type = "string" -> IF IsEnum(t) /\ t.IDName # "" THEN "enum" ELSE "string"
           [] OTHER -> "interface{}"

\* Command.ArgsName, Command.ReplyName, Command.CmdName
CmdName(d, c) == DomainName(d) \o Title(c.NameName)
ArgsName(d, c) == CmdName(d, c) \o "Args"
ReplyName(d, c) == CmdName(d, c) \o "Reply"
\* Event.EventName, Event.ReplyName
EventName(d, ev) == DomainName(d) \o Title(ev.NameName)
EventReplyName(d, ev) == EventName(d, ev) \o "Reply"

\* Command.Name, Event.Name: the exported Go name.
GoName(x) == Title(x.NameName)

\* Enum.Name: the label as part of a Go identifier ("first-line" gives FirstLine).
RECURSIVE EnumLabelName(_)
EnumLabelName(label) ==
    IF Len(label) = 0 THEN ""
    ELSE IF SubSeq(label, 1, 1) = "-" THEN EnumLabelName(SubSeq(label, 2, Len(label)))
    ELSE UpperChar(SubSeq(label, 1, 1)) \o
         (LET rest == SubSeq(label, 2, Len(label))
              dash == IndexIn(rest, "-")
          IN IF dash = 0 THEN rest
             ELSE SubSeq(rest, 1, dash - 1) \o EnumLabelName(SubSeq(rest, dash, Len(rest))))

\* Command.ArgsSignature: the required parameters of the constructor.
ArgsSignature(d, c) ==
    LET req == SelectSeq(c.Parameters, LAMBDA p : ~p.Optional)
    IN [i \in 1..Len(req) |-> [name |-> Name(d, req[i]), type |-> GoType("cdp", d, req[i])]]

\* Command.ArgsAssign: one assignment per required parameter.
ArgsAssign(rcv, d, c) ==
    LET req == SelectSeq(c.Parameters, LAMBDA p : ~p.Optional)
    IN [i \in 1..Len(req) |->
            [field |-> rcv \o "." \o ExportedName(d, req[i]), value |-> Name(d, req[i])]]

RECURSIVE Flatten(_)
Flatten(ss) == IF Len(ss) = 0 THEN <<>> ELSE Head(ss) \o Flatten(Tail(ss))

(***************************************************************************)
(* The Generator.                                                          *)
(***************************************************************************)
OptionalPropPrefix == ""

GenNames == {"g", "tg", "cg", "eg"}

\* var g, tg, cg, eg Generator
ZeroGenerator ==
    [pkg |-> "", dir |-> "", imports |-> <<>>, buf |-> <<>>,
     hasContent |-> FALSE, hasHeader |-> FALSE]

\* Generator.path
GenPath(G) == "GOPATH/src/" \o G.dir

\* path.Join of two non-empty elements
PathJoin(a, b) == a \o "/" \o b

\* Generator.Printf: one template's text appended to the buffer.
Printf(G, chunk) == [G EXCEPT !.buf = Append(@, chunk)]

\* The flags reset, the buffer kept.
clearKeepsBuffer(G) == [G EXCEPT !.hasContent = FALSE, !.hasHeader = FALSE]

\* Generator.clear
clear(G) == [G EXCEPT !.hasContent = FALSE, !.hasHeader = FALSE, !.buf = <<>>]

HeaderChunk(G) == [k |-> "header", pkg |-> G.pkg, imports |-> G.imports]

\* The header written without looking at hasHeader.
PackageHeaderUnguarded(G) == Printf([G EXCEPT !.hasHeader = TRUE], HeaderChunk(G))

\* Generator.PackageHeader
PackageHeader(G) ==
    IF G.hasHeader THEN G
    ELSE Printf([G EXCEPT !.hasHeader = TRUE], HeaderChunk(G))

\* The client's fields listed from the last domain to the first.
CdpClientReversed(G, domains) ==
    Printf([G EXCEPT !.hasContent = TRUE],
        [k |-> "client",
         fields |-> [i \in 1..Len(domains) |->
                        [name |-> DomainName(domains[Len(domains) + 1 - i]),
                         type |-> DomainName(domains[Len(domains) + 1 - i])]],
         newFields |-> [i \in 1..Len(domains) |->
                        [name |-> DomainName(domains[i]),
                         value |-> "&" \o ToLower(DomainName(domains[i])) \o "Domain{conn: conn}"]]])

\* Generator.CdpClient
CdpClient(G, domains) ==
    Printf([G EXCEPT !.hasContent = TRUE],
        [k |-> "client",
         fields |-> [i \in 1..Len(domains) |->
                        [name |-> DomainName(domains[i]), type |-> DomainName(domains[i])]],
         newFields |-> [i \in 1..Len(domains) |->
                        [name |-> DomainName(domains[i]),
                         value |-> "&" \o ToLower(DomainName(domains[i])) \o "Domain{conn: conn}"]]])

\* The registry's values taken from the Go names of the commands.
CmdTypeGoValues(G, doms) ==
    Printf([G EXCEPT !.hasContent = TRUE],
        [k |-> "cmdtype",
         consts |-> Flatten([i \in 1..Len(doms) |->
            [j \in 1..Len(doms[i].Commands) |->
                [name |-> CmdName(doms[i], doms[i].Commands[j]),
                 value |-> CmdName(doms[i], doms[i].Commands[j])]]])])

\* Generator.CmdType
CmdType(G, doms) ==
    Printf([G EXCEPT !.hasContent = TRUE],
        [k |-> "cmdtype",
         consts |-> Flatten([i \in 1..Len(doms) |->
            [j \in 1..Len(doms[i].Commands) |->
                [name |-> CmdName(doms[i], doms[i].Commands[j]),
                 value |-> doms[i].Domain \o "." \o doms[i].Commands[j].NameName]]])])

\* Generator.EventType
EventType(G, doms) ==
    Printf([G EXCEPT !.hasContent = TRUE],
        [k |-> "eventtype",
         consts |-> Flatten([i \in 1..Len(doms) |->
            [j \in 1..Len(doms[i].Events) |->
                [name |-> EventName(doms[i], doms[i].Events[j]),
                 value |-> doms[i].Domain \o "." \o doms[i].Events[j].NameName]]])])

\* A facade whose every command returns a reply.
DomainCommandDefsAlwaysReply(d, c) ==
    LET hasArgs == Len(c.Parameters) > 0
    IN [interfaceDef |->
            <<[k |-> "command", name |-> GoName(c),
               request |-> IF hasArgs THEN ", *cdpcmd." \o ArgsName(d, c) ELSE "",
               reply |-> "(*cdpcmd." \o ReplyName(d, c) \o ", error)"]>>,
        domDef |->
            <<[k |-> "func", recv |-> ToLower(DomainName(d)) \o "Domain", name |-> GoName(c),
               request |-> IF hasArgs THEN ", args *cdpcmd." \o ArgsName(d, c) ELSE "",
               reply |-> "(reply *cdpcmd." \o ReplyName(d, c) \o ", err error)",
               newReply |-> "cdpcmd." \o ReplyName(d, c),
               invoke |-> [cmd |-> "cdpcmd." \o CmdName(d, c),
                           args |-> IF hasArgs THEN "args" ELSE "nil",
                           reply |-> "reply"]]>>]

\* What Generator.Domain collects in interfaceDef and domDef for one command.
DomainCommandDefs(d, c) ==
    LET hasArgs == Len(c.Parameters) > 0
        hasReply == Len(c.Returns) > 0
    IN [interfaceDef |->
            <<[k |-> "command", name |-> GoName(c),
               request |-> IF hasArgs THEN ", *cdpcmd." \o ArgsName(d, c) ELSE "",
               reply |-> IF hasReply THEN "(*cdpcmd." \o ReplyName(d, c) \o ", error)"
                         ELSE "error"]>>,
        domDef |->
            <<[k |-> "func", recv |-> ToLower(DomainName(d)) \o "Domain", name |-> GoName(c),
               request |-> IF hasArgs THEN ", args *cdpcmd." \o ArgsName(d, c) ELSE "",
               reply |-> IF hasReply THEN "(reply *cdpcmd." \o ReplyName(d, c) \o ", err error)"
                         ELSE "(err error)",
               newReply |-> IF hasReply THEN "cdpcmd." \o ReplyName(d, c) ELSE "",
               invoke |-> [cmd |-> "cdpcmd." \o CmdName(d, c),
                           args |-> IF hasArgs THEN "args" ELSE "nil",
                           reply |-> IF hasReply THEN "reply" ELSE "nil"]]>>
            \o (IF hasArgs
                THEN <<[k |-> "newargs", name |-> "New" \o ArgsName(d, c),
                        signature |-> ArgsSignature(d, c),
                        result |-> "*cdpcmd." \o ArgsName(d, c),
                        assign |-> ArgsAssign("args", d, c)]>>
                ELSE <<>>)]

\* What Generator.Domain collects in interfaceDef and domDef for one event.
DomainEventDefs(d, ev) ==
    LET eventClient == EventName(d, ev) \o "Client"
        eventClientImpl == ToLower(d.Domain) \o "" \o GoName(ev) \o "Client"
    IN [interfaceDef |->
            <<[k |-> "event", name |-> GoName(ev), result |-> "cdpevent." \o eventClient]>>,
        domDef |->
            <<[k |-> "eventfunc", recv |-> ToLower(DomainName(d)) \o "Domain",
               name |-> GoName(ev), result |-> "cdpevent." \o eventClient,
               stream |-> "cdpevent." \o EventName(d, ev), impl |-> eventClientImpl],
              [k |-> "recv", impl |-> eventClientImpl, implements |-> eventClient,
               event |-> "cdpevent." \o EventReplyName(d, ev),
               errPrefix |-> "cdp: " \o eventClient \o " Recv: "]>>]

\* Generator.Domain
Domain(G, d) ==
    LET cs == [i \in 1..Len(d.Commands) |-> DomainCommandDefs(d, d.Commands[i])]
        es == [i \in 1..Len(d.Events) |-> DomainEventDefs(d, d.Events[i])]
    IN Printf([G EXCEPT !.hasContent = TRUE],
        [k |-> "domain", name |-> DomainName(d), impl |-> ToLower(DomainName(d)) \o "Domain",
         interfaceDef |-> Flatten([i \in 1..Len(cs) |-> cs[i].interfaceDef])
                          \o Flatten([i \in 1..Len(es) |-> es[i].interfaceDef]),
         domDef |-> Flatten([i \in 1..Len(cs) |-> cs[i].domDef])
                    \o Flatten([i \in 1..Len(es) |-> es[i].domDef])])

\* isNonPointer
isNonPointer(pkg, d, t) ==
    LET typ == GoType(pkg, d, t)
    IN \/ IsEnum(t)
       \/ HasPrefix(typ, "[]")
       \/ HasPrefix(typ, "map[")
       \/ typ = "json.RawMessage"
       \/ typ = "RawMessage"
       \/ typ = "interface{}"

\* An optional property printed like a required one.
printStructPropertiesValueOptional(G, npm, d, name, props, ptrOptional, renameOptional) ==
    [i \in 1..Len(props) |->
        LET prop == props[i]
            ptype0 == GoType(G.pkg, d, prop)
            ptype == IF ptype0 = name THEN "*" \o ptype0 ELSE ptype0
        IN [name |-> IF renameOptional /\ prop.Optional
                     THEN OptionalPropPrefix \o ExportedName(d, prop)
                     ELSE ExportedName(d, prop),
            type |-> ptype,
            tag |-> IF prop.Optional THEN prop.NameName \o ",omitempty" ELSE prop.NameName]]

\* The fields printed without the test for a recursive definition.
printStructPropertiesNoSelfTest(G, npm, d, name, props, ptrOptional, renameOptional) ==
    [i \in 1..Len(props) |->
        LET prop == props[i]
            ptype0 == GoType(G.pkg, d, prop)
            ptype == IF prop.Optional /\ ptrOptional /\ ptype0 \notin npm
                        /\ ~isNonPointer(G.pkg, d, prop)
                     THEN "*" \o ptype0 ELSE ptype0
        IN [name |-> IF renameOptional /\ prop.Optional
                     THEN OptionalPropPrefix \o ExportedName(d, prop)
                     ELSE ExportedName(d, prop),
            type |-> ptype,
            tag |-> IF prop.Optional THEN prop.NameName \o ",omitempty" ELSE prop.NameName]]

\* Generator.printStructProperties: the fields it prints, given the global map.
printStructProperties(G, npm, d, name, props, ptrOptional, renameOptional) ==
    [i \in 1..Len(props) |->
        LET prop == props[i]
            ptype0 == GoType(G.pkg, d, prop)
            ptype1 == IF prop.Optional /\ ptrOptional /\ ptype0 \notin npm
                         /\ ~isNonPointer(G.pkg, d, prop)
                      THEN "*" \o ptype0 ELSE ptype0
            ptype == IF ptype1 = name THEN "*" \o ptype1 ELSE ptype1
        IN [name |-> IF renameOptional /\ prop.Optional
                     THEN OptionalPropPrefix \o ExportedName(d, prop)
                     ELSE ExportedName(d, prop),
            type |-> ptype,
            tag |-> IF prop.Optional THEN prop.NameName \o ",omitempty" ELSE prop.NameName]]

\* Generator.domainTypeStruct
domainTypeStruct(G, npm, d, t) ==
    [k |-> "struct", fields |-> printStructProperties(G, npm, d, Name(d, t), t.Properties, TRUE, FALSE)]

\* Generator.domainTypeRawMessage: the []byte type with its two methods.
domainTypeRawMessage(G, d, t) ==
    [k |-> "rawmessage", underlying |-> "[]byte",
     marshalNil |-> "null",
     unmarshalNilErr |-> G.pkg \o "." \o Name(d, t) \o ": UnmarshalJSON on nil pointer"]

\* The decoder's cases numbered from 0, like the labels' indexes.
domainTypeEnumOffByOne(G, d, t) ==
    LET name == Title(Name(d, t))
    IN [k |-> "enum", underlying |-> "int", name |-> name,
        consts |-> <<name \o "NotSet">>
                   \o [i \in 1..Len(t.Enum) |-> name \o EnumLabelName(t.Enum[i])],
        validLo |-> 1, validHi |-> Len(t.Enum),
        stringCases |-> <<[ord |-> 0, result |-> name \o "NotSet"]>>
                        \o [i \in 1..Len(t.Enum) |-> [ord |-> i, result |-> t.Enum[i]]],
        stringDefault |-> name,
        marshalZero |-> "null",
        unmarshalCases |-> [i \in 1..Len(t.Enum) |->
                               [data |-> "\"" \o t.Enum[i] \o "\"", ord |-> i - 1]],
        unmarshalErr |-> "bad " \o name \o ": "]

\* Generator.domainTypeEnum with realEnum = true: the int type, its constants
\* (the iota block), Valid, String, MarshalJSON and UnmarshalJSON.
domainTypeEnum(G, d, t) ==
    LET name == Title(Name(d, t))
    IN [k |-> "enum", underlying |-> "int", name |-> name,
        consts |-> <<name \o "NotSet">>
                   \o [i \in 1..Len(t.Enum) |-> name \o EnumLabelName(t.Enum[i])],
        validLo |-> 1, validHi |-> Len(t.Enum),
        stringCases |-> <<[ord |-> 0, result |-> name \o "NotSet"]>>
                        \o [i \in 1..Len(t.Enum) |-> [ord |-> i, result |-> t.Enum[i]]],
        stringDefault |-> name,
        marshalZero |-> "null",
        unmarshalCases |-> [i \in 1..Len(t.Enum) |->
                               [data |-> "\"" \o t.Enum[i] \o "\"", ord |-> i]],
        unmarshalErr |-> "bad " \o name \o ": "]

\* No test of the enumeration's primitive kind.
EnumPanicsNever(G, d, t) == FALSE

\* domainTypeEnum panics on an enumeration that is not a string.
EnumPanics(G, d, t) == GoType(G.pkg, d, t) = "enum" /\ t.Type # "string"

\* Generator.DomainType up to the panic of domainTypeEnum: the type's head is
\* in the buffer, its definition is not.
DomainTypeHead(G, d, t) ==
    Printf([G EXCEPT !.hasContent = TRUE],
        [k |-> "type", name |-> Name(d, t), def |-> [k |-> "none"]])

\* Generator.DomainType
DomainType(G, npm, d, t) ==
    LET gt == GoType(G.pkg, d, t)
    IN Printf([G EXCEPT !.hasContent = TRUE],
        [k |-> "type", name |-> Name(d, t),
         def |-> CASE gt = "struct" -> domainTypeStruct(G, npm, d, t)
                   [] gt = "enum" -> domainTypeEnum(G, d, t)
                   [] gt = "RawMessage" -> domainTypeRawMessage(G, d, t)
                   [] OTHER -> [k |-> "alias", type |-> gt]])

\* The classification map not consulted.
SetterParamsIgnoresMap(G, npm, d, c) ==
    SelectSeq(c.Parameters, LAMBDA arg : arg.Optional /\ ~isNonPointer(G.pkg, d, arg))

\* A setter for every optional parameter.
SetterParamsAllOptional(G, npm, d, c) == SelectSeq(c.Parameters, LAMBDA arg : arg.Optional)

\* The parameters domainCmdArgs emits a setter for.
SetterParams(G, npm, d, c) ==
    SelectSeq(c.Parameters,
        LAMBDA arg : ~(~arg.Optional \/ GoType(G.pkg, d, arg) \in npm
                       \/ isNonPointer(G.pkg, d, arg)))

\* The setter domainCmdArgs prints for one parameter.
Setter(d, c, arg) ==
    LET name0 == Name(d, arg)
        name == IF name0 = "range" \/ name0 = "type"
                THEN SubSeq(name0, 1, Len(name0) - 1) ELSE name0
    IN [k |-> "setter", name |-> "Set" \o ExportedName(d, arg),
        recvVar |-> "a", recvType |-> "*" \o ArgsName(d, c),
        param |-> name, paramType |-> GoType("cdp", d, arg),
        resultType |-> "*" \o ArgsName(d, c),
        field |-> OptionalPropPrefix \o ExportedName(d, arg),
        value |-> "&" \o name,
        result |-> "a"]

\* Generator.domainCmdArgs
domainCmdArgs(G, npm, d, c) ==
    LET st == Printf(G, [k |-> "struct", name |-> ArgsName(d, c), role |-> "args",
                         fields |-> printStructProperties(G, npm, d, ArgsName(d, c),
                                                          c.Parameters, TRUE, TRUE)])
        sp == SetterParams(G, npm, d, c)
    IN [st EXCEPT !.buf = @ \o [i \in 1..Len(sp) |-> Setter(d, c, sp[i])]]

\* Generator.domainCmdReply
domainCmdReply(G, npm, d, c) ==
    Printf(G, [k |-> "struct", name |-> ReplyName(d, c), role |-> "reply",
               fields |-> printStructProperties(G, npm, d, ReplyName(d, c),
                                                c.Returns, TRUE, FALSE)])

\* The reply record printed for every command.
DomainCmdReplyAlways(G, npm, d, c) ==
    LET G1 == IF Len(c.Parameters) > 0
              THEN domainCmdArgs([G EXCEPT !.hasContent = TRUE], npm, d, c) ELSE G
    IN domainCmdReply([G1 EXCEPT !.hasContent = TRUE], npm, d, c)

\* hasContent set whether or not the command declares anything.
DomainCmdAlwaysContent(G, npm, d, c) ==
    LET G0 == [G EXCEPT !.hasContent = TRUE]
        G1 == IF Len(c.Parameters) > 0 THEN domainCmdArgs(G0, npm, d, c) ELSE G0
    IN IF Len(c.Returns) > 0 THEN domainCmdReply(G1, npm, d, c) ELSE G1

\* Generator.DomainCmd
DomainCmd(G, npm, d, c) ==
    LET G1 == IF Len(c.Parameters) > 0
              THEN domainCmdArgs([G EXCEPT !.hasContent = TRUE], npm, d, c) ELSE G
    IN IF Len(c.Returns) > 0
       THEN domainCmdReply([G1 EXCEPT !.hasContent = TRUE], npm, d, c) ELSE G1

\* Generator.domainEventClient
domainEventClient(G, d, ev) ==
    Printf(G, [k |-> "eventclient", name |-> EventName(d, ev) \o "Client",
               recv |-> "*" \o EventReplyName(d, ev)])

\* Generator.domainEventReply
domainEventReply(G, npm, d, ev) ==
    Printf(G, [k |-> "struct", name |-> EventReplyName(d, ev), role |-> "event",
               fields |-> printStructProperties(G, npm, d, EventReplyName(d, ev),
                                                ev.Parameters, TRUE, FALSE)])

\* Generator.DomainEvent
DomainEvent(G, npm, d, ev) ==
    domainEventReply(domainEventClient([G EXCEPT !.hasContent = TRUE], d, ev), npm, d, ev)

(***************************************************************************)
(* main.                                                                   *)
(***************************************************************************)
\* The comparison reversed.
DomainGreater(a, b) == StrLess(b.Domain, a.Domain)

\* Go's sort.Slice orders by less and promises nothing about elements that
\* compare equal: every permutation of s with no pair out of order is a
\* result it may produce.
DomainLess(a, b) == StrLess(a.Domain, b.Domain)

IndexPermutations(n) == {p \in [1..n -> 1..n] : \A i, j \in 1..n : i # j => p[i] # p[j]}

SortSlice(s) ==
    {[i \in 1..Len(s) |-> s[p[i]]] : p \in
        {q \in IndexPermutations(Len(s)) :
            \A i, j \in 1..Len(s) : i < j => ~DomainLess(s[q[j]], s[q[i]])}}

Call(op, g, d, i) == [op |-> op, g |-> g, d |-> d, i |-> i, f |-> "", pkgFile |-> FALSE]
WriteCall(g, f) == [Call("writeFile", g, 0, 0) EXCEPT !.f = f]
\* writeFile(x.pkg + ".go")
WritePkgCall(g) == [Call("writeFile", g, 0, 0) EXCEPT !.f = ".go", !.pkgFile = TRUE]

\* The calls of main's per-domain loop for the domain at index di.
DomainCalls(domains, di) ==
    LET d == domains[di]
    IN <<Call("PackageHeader", "g", 0, 0), Call("Domain", "g", di, 0)>>
       \o (IF Len(d.Types) > 0
           THEN <<Call("PackageHeader", "tg", 0, 0)>>
                \o [i \in 1..Len(d.Types) |-> Call("DomainType", "tg", di, i)]
           ELSE <<>>)
       \o (IF Len(d.Commands) > 0
           THEN <<Call("PackageHeader", "cg", 0, 0)>>
                \o [i \in 1..Len(d.Commands) |-> Call("DomainCmd", "cg", di, i)]
           ELSE <<>>)
       \o (IF Len(d.Events) > 0
           THEN <<Call("PackageHeader", "eg", 0, 0)>>
                \o [i \in 1..Len(d.Events) |-> Call("DomainEvent", "eg", di, i)]
           ELSE <<>>)

\* The body of the classification loop, once per declared type.
ClassifyCalls(domains) ==
    Flatten([di \in 1..Len(domains) |->
                [i \in 1..Len(domains[di].Types) |-> Call("classify", "tg", di, i)]])

\* Every domain classified just before it is emitted, not in a pass of its own.
MainCallsClassifyPerDomain(domains) ==
    <<Call("PackageHeader", "g", 0, 0), Call("CdpClient", "g", 0, 0), WriteCall("g", "cdp_client.go"),
      Call("PackageHeader", "cg", 0, 0), Call("CmdType", "cg", 0, 0), WriteCall("cg", "cmd.go"),
      Call("PackageHeader", "eg", 0, 0), Call("EventType", "eg", 0, 0), WriteCall("eg", "event.go")>>
    \o Flatten([di \in 1..Len(domains) |->
                    [i \in 1..Len(domains[di].Types) |-> Call("classify", "tg", di, i)]
                    \o DomainCalls(domains, di)])
    \o <<WritePkgCall("tg"), WritePkgCall("cg"), WritePkgCall("eg"), WritePkgCall("g")>>

\* The calls main makes, in order, once the generators are set up.
MainCalls(domains) ==
    <<Call("PackageHeader", "g", 0, 0), Call("CdpClient", "g", 0, 0), WriteCall("g", "cdp_client.go"),
      Call("PackageHeader", "cg", 0, 0), Call("CmdType", "cg", 0, 0), WriteCall("cg", "cmd.go"),
      Call("PackageHeader", "eg", 0, 0), Call("EventType", "eg", 0, 0), WriteCall("eg", "event.go")>>
    \o ClassifyCalls(domains)
    \o Flatten([di \in 1..Len(domains) |-> DomainCalls(domains, di)])
    \o <<WritePkgCall("tg"), WritePkgCall("cg"), WritePkgCall("eg"), WritePkgCall("g")>>

Cur == calls[ip]
Running(op) == phase = "run" /\ ip \in 1..Len(calls) /\ Cur.op = op

\* The runtime of the generated code is not part of a run of the generator.
NoEnum == [k |-> "none"]
NoStream == [open |-> FALSE, msgs |-> <<>>, next |-> 1]
NilBytes == [nil |-> TRUE, bytes |-> ""]
Bytes(str) == [nil |-> FALSE, bytes |-> str]

GenInit ==
    /\ phase = "flags"
    /\ calls = <<>>
    /\ ip = 0
    /\ destPkg \in {"", "x/cdp"}
    /\ protocolData = [ok |-> FALSE, Domains |-> <<>>]
    /\ jsProtocolData = [ok |-> FALSE, Domains |-> <<>>]
    /\ protocol = [Domains |-> <<>>]
    /\ jsProtocol = [Domains |-> <<>>]
    /\ nonPtrMap = {}
    /\ gens = [n \in GenNames |-> ZeroGenerator]
    /\ dirs = {}
    /\ writes = <<>>
    /\ logs = <<>>
    /\ fmtFailures = 0
    /\ cause = ""

Init ==
    /\ GenInit
    /\ enumType = NoEnum /\ e = 0 /\ target = 0 /\ data = NilBytes /\ err = "" /\ lastOp = ""
    /\ rawType = NoEnum /\ m = NilBytes
    /\ recvDecl = NoEnum /\ stream = NoStream /\ event = "nil"

\* The process ends: os.Exit(1) or a panic.
Stop(how, why) == phase' = how /\ cause' = why

\* flag.Parse and the check of -dest-pkg.
CheckFlags ==
    /\ phase = "flags"
    /\ IF destPkg = "" THEN Stop("exit", "usage") ELSE phase' = "readBrowser" /\ cause' = cause
    /\ UNCHANGED <<calls, ip, destPkg, protocolData, jsProtocolData, protocol, jsProtocol,
                   nonPtrMap, gens, dirs, writes, logs, fmtFailures, rtVars>>

\* ioutil.ReadFile(browserProtoJSON)
ReadBrowser ==
    /\ phase = "readBrowser"
    /\ \E ok \in BOOLEAN :
        IF ok
        THEN /\ \E c \in FileContents : protocolData' = c
             /\ phase' = "decodeBrowser" /\ cause' = cause
        ELSE Stop("panic", "read") /\ UNCHANGED protocolData
    /\ UNCHANGED <<calls, ip, destPkg, jsProtocolData, protocol, jsProtocol,
                   nonPtrMap, gens, dirs, writes, logs, fmtFailures, rtVars>>

\* json.Unmarshal(protocolData, &protocol)
DecodeBrowser ==
    /\ phase = "decodeBrowser"
    /\ IF protocolData.ok
       THEN protocol' = [Domains |-> protocolData.Domains]
            /\ phase' = "readJS" /\ cause' = cause
       ELSE Stop("panic", "decode") /\ UNCHANGED protocol
    /\ UNCHANGED <<calls, ip, destPkg, protocolData, jsProtocolData, jsProtocol,
                   nonPtrMap, gens, dirs, writes, logs, fmtFailures, rtVars>>

\* ioutil.ReadFile(jsProtoFileJSON)
ReadJS ==
    /\ phase = "readJS"
    /\ \E ok \in BOOLEAN :
        IF ok
        THEN /\ \E c \in FileContents :
                    /\ Len(c.Domains) + Len(protocol.Domains) <= MaxDomains
                    /\ jsProtocolData' = c
             /\ phase' = "decodeJS" /\ cause' = cause
        ELSE Stop("panic", "read") /\ UNCHANGED jsProtocolData
    /\ UNCHANGED <<calls, ip, destPkg, protocolData, protocol, jsProtocol,
                   nonPtrMap, gens, dirs, writes, logs, fmtFailures, rtVars>>

\* The decode error ignored: the run goes on with no JS domains.
DecodeJSIgnoresError ==
    /\ phase = "decodeJS"
    /\ jsProtocol' = [Domains |-> jsProtocolData.Domains]
    /\ phase' = "merge" /\ cause' = cause
    /\ UNCHANGED <<calls, ip, destPkg, protocolData, jsProtocolData, protocol,
                   nonPtrMap, gens, dirs, writes, logs, fmtFailures, rtVars>>

\* json.Unmarshal(jsProtocolData, &jsProtocol)
DecodeJS ==
    /\ phase = "decodeJS"
    /\ IF jsProtocolData.ok
       THEN jsProtocol' = [Domains |-> jsProtocolData.Domains]
            /\ phase' = "merge" /\ cause' = cause
       ELSE Stop("panic", "decode") /\ UNCHANGED jsProtocol
    /\ UNCHANGED <<calls, ip, destPkg, protocolData, jsProtocolData, protocol,
                   nonPtrMap, gens, dirs, writes, logs, fmtFailures, rtVars>>

\* protocol.Domains = append(protocol.Domains, jsProtocol.Domains...)
Merge(a, b) == a \o b

\* The append and the sort.Slice that follows it.
MergeSort ==
    /\ phase = "merge"
    /\ \E sorted \in SortSlice(Merge(protocol.Domains, jsProtocol.Domains)) :
            protocol' = [Domains |-> sorted]
    /\ phase' = "setup"
    /\ UNCHANGED <<calls, ip, destPkg, protocolData, jsProtocolData, jsProtocol,
                   nonPtrMap, gens, dirs, writes, logs, fmtFailures, cause, rtVars>>

\* The generators' fields as main sets them.
SetupGenerators(dest) ==
    LET tgdir == PathJoin(dest, "cdptype")
        cgdir == PathJoin(dest, "cdpcmd")
        egdir == PathJoin(dest, "cdpevent")
    IN [g  |-> [ZeroGenerator EXCEPT !.pkg = "cdp", !.dir = dest,
                    !.imports = <<"github.com/mafredri/cdp/rpcc", tgdir, cgdir, egdir>>],
        tg |-> [ZeroGenerator EXCEPT !.pkg = "cdptype", !.dir = tgdir],
        cg |-> [ZeroGenerator EXCEPT !.pkg = "cdpcmd", !.dir = cgdir, !.imports = <<tgdir>>],
        eg |-> [ZeroGenerator EXCEPT !.pkg = "cdpevent", !.dir = egdir, !.imports = <<tgdir>>]]

\* The four generators get their package and directory; os.Mkdir for each.
Setup ==
    /\ phase = "setup"
    /\ gens' = SetupGenerators(destPkg)
    /\ dirs' = dirs \cup {GenPath(SetupGenerators(destPkg)[n]) : n \in GenNames}
    /\ phase' = "run"
    /\ calls' = MainCalls(protocol.Domains)
    /\ ip' = 1
    /\ UNCHANGED <<destPkg, protocolData, jsProtocolData, protocol, jsProtocol,
                   nonPtrMap, writes, logs, fmtFailures, cause, rtVars>>

\* After the call at ip: the next call, or goimports after the last one.
Advance ==
    /\ ip' = ip + 1
    /\ phase' = IF ip = Len(calls) THEN "goimports" ELSE "run"

CurGen == gens[Cur.g]
CurDomain == protocol.Domains[Cur.d]

\* x.PackageHeader()
DoPackageHeader ==
    /\ Running("PackageHeader")
    /\ gens' = [gens EXCEPT ![Cur.g] = PackageHeader(CurGen)]
    /\ Advance
    /\ UNCHANGED <<calls, destPkg, protocolData, jsProtocolData, protocol, jsProtocol,
                   nonPtrMap, dirs, writes, logs, fmtFailures, cause, rtVars>>

\* g.CdpClient(protocol.Domains)
DoCdpClient ==
    /\ Running("CdpClient")
    /\ gens' = [gens EXCEPT ![Cur.g] = CdpClient(CurGen, protocol.Domains)]
    /\ Advance
    /\ UNCHANGED <<calls, destPkg, protocolData, jsProtocolData, protocol, jsProtocol,
                   nonPtrMap, dirs, writes, logs, fmtFailures, cause, rtVars>>

\* cg.CmdType(protocol.Domains)
DoCmdType ==
    /\ Running("CmdType")
    /\ gens' = [gens EXCEPT ![Cur.g] = CmdType(CurGen, protocol.Domains)]
    /\ Advance
    /\ UNCHANGED <<calls, destPkg, protocolData, jsProtocolData, protocol, jsProtocol,
                   nonPtrMap, dirs, writes, logs, fmtFailures, cause, rtVars>>

\* eg.EventType(protocol.Domains)
DoEventType ==
    /\ Running("EventType")
    /\ gens' = [gens EXCEPT ![Cur.g] = EventType(CurGen, protocol.Domains)]
    /\ Advance
    /\ UNCHANGED <<calls, destPkg, protocolData, jsProtocolData, protocol, jsProtocol,
                   nonPtrMap, dirs, writes, logs, fmtFailures, cause, rtVars>>

\* The keys the classification loop sets for one declared type.
ClassifyType(pkg, d, t) ==
    IF isNonPointer(pkg, d, t) THEN {Name(d, t), pkg \o "." \o Name(d, t)} ELSE {}

\* One pass of the body of the classification loop.
Classify ==
    /\ Running("classify")
    /\ nonPtrMap' = nonPtrMap \cup ClassifyType(gens["tg"].pkg, CurDomain, CurDomain.Types[Cur.i])
    /\ Advance
    /\ UNCHANGED <<calls, destPkg, protocolData, jsProtocolData, protocol, jsProtocol,
                   gens, dirs, writes, logs, fmtFailures, cause, rtVars>>

\* g.Domain(d)
DoDomain ==
    /\ Running("Domain")
    /\ gens' = [gens EXCEPT ![Cur.g] = Domain(CurGen, CurDomain)]
    /\ Advance
    /\ UNCHANGED <<calls, destPkg, protocolData, jsProtocolData, protocol, jsProtocol,
                   nonPtrMap, dirs, writes, logs, fmtFailures, cause, rtVars>>

\* tg.DomainType(d, t): log.Panicf ends the run on an enumeration that is
\* not a string.
DoDomainType ==
    /\ Running("DomainType")
    /\ IF EnumPanics(CurGen, CurDomain, CurDomain.Types[Cur.i])
       THEN /\ gens' = [gens EXCEPT ![Cur.g] =
                            DomainTypeHead(CurGen, CurDomain, CurDomain.Types[Cur.i])]
            /\ logs' = Append(logs, [msg |-> "unknown enum type", arg |-> CurDomain.Types[Cur.i].Type])
            /\ Stop("panic", "enum")
            /\ UNCHANGED ip
       ELSE /\ gens' = [gens EXCEPT ![Cur.g] =
                            DomainType(CurGen, nonPtrMap, CurDomain, CurDomain.Types[Cur.i])]
            /\ Advance
            /\ UNCHANGED <<logs, cause>>
    /\ UNCHANGED <<calls, destPkg, protocolData, jsProtocolData, protocol, jsProtocol,
                   nonPtrMap, dirs, writes, fmtFailures, rtVars>>

\* cg.DomainCmd(d, c)
DoDomainCmd ==
    /\ Running("DomainCmd")
    /\ gens' = [gens EXCEPT ![Cur.g] =
                    DomainCmd(CurGen, nonPtrMap, CurDomain, CurDomain.Commands[Cur.i])]
    /\ Advance
    /\ UNCHANGED <<calls, destPkg, protocolData, jsProtocolData, protocol, jsProtocol,
                   nonPtrMap, dirs, writes, logs, fmtFailures, cause, rtVars>>

\* eg.DomainEvent(d, e)
DoDomainEvent ==
    /\ Running("DomainEvent")
    /\ gens' = [gens EXCEPT ![Cur.g] =
                    DomainEvent(CurGen, nonPtrMap, CurDomain, CurDomain.Events[Cur.i])]
    /\ Advance
    /\ UNCHANGED <<calls, destPkg, protocolData, jsProtocolData, protocol, jsProtocol,
                   nonPtrMap, dirs, writes, logs, fmtFailures, cause, rtVars>>

\* Nothing returned when format.Source rejects the buffer.
formatDropsInvalid(G, accepted) ==
    [formatted |-> accepted, src |-> IF accepted THEN G.buf ELSE <<>>]

\* Generator.format: format.Source accepts the buffer and returns it
\* formatted, or rejects it, and format returns the buffer's own bytes.
format(G, accepted) == [formatted |-> accepted, src |-> G.buf]

\* The file name a writeFile call of main passes.
FileName(call, G) == IF call.pkgFile THEN G.pkg \o call.f ELSE call.f

\* x.writeFile(f).  format.Source's verdict on the text and the outcome of
\* ioutil.WriteFile are the environment's.
DoWriteFile ==
    /\ Running("writeFile")
    /\ LET G == CurGen
           fp == PathJoin(GenPath(G), FileName(Cur, G))
       IN IF ~G.hasContent
          THEN /\ logs' = Append(logs, [msg |-> "No content, skipping", arg |-> fp])
               /\ gens' = [gens EXCEPT ![Cur.g] = clear(G)]
               /\ Advance
               /\ UNCHANGED <<writes, fmtFailures, cause>>
          ELSE IF Len(G.buf) = 0
          THEN /\ logs' = Append(logs, [msg |-> "Empty buffer, skipping", arg |-> fp])
               /\ Advance
               /\ UNCHANGED <<gens, writes, fmtFailures, cause>>
          ELSE \E accepted \in {TRUE} \cup {b \in {FALSE} : fmtFailures < MaxFormatFailures},
                  written \in BOOLEAN :
               /\ fmtFailures' = IF accepted THEN fmtFailures ELSE fmtFailures + 1
               /\ logs' = logs \o <<[msg |-> "Writing", arg |-> fp]>>
                          \o (IF accepted THEN <<>>
                              ELSE <<[msg |-> "warning: internal error: invalid Go generated", arg |-> fp],
                                     [msg |-> "warning: compile the package to analyze the error", arg |-> fp]>>)
               /\ IF written
                  THEN /\ writes' = Append(writes, [path |-> fp, data |-> format(G, accepted)])
                       /\ gens' = [gens EXCEPT ![Cur.g] = clear(G)]
                       /\ Advance
                       /\ UNCHANGED cause
                  ELSE /\ Stop("panic", "write")
                       /\ UNCHANGED <<ip, gens, writes>>
    /\ UNCHANGED <<calls, destPkg, protocolData, jsProtocolData, protocol, jsProtocol,
                   nonPtrMap, dirs, rtVars>>

\* goimports -w on the four directories: os.Exit(1) when it fails.
GoImports ==
    /\ phase = "goimports"
    /\ \E ok \in BOOLEAN :
        IF ok THEN phase' = "goinstall" /\ UNCHANGED <<cause, logs>>
        ELSE Stop("exit", "goimports") /\ logs' = Append(logs, [msg |-> "goimports", arg |-> "failed"])
    /\ UNCHANGED <<calls, ip, destPkg, protocolData, jsProtocolData, protocol, jsProtocol,
                   nonPtrMap, gens, dirs, writes, fmtFailures, rtVars>>

\* go install of the generated packages: os.Exit(1) when it fails.
GoInstall ==
    /\ phase = "goinstall"
    /\ \E ok \in BOOLEAN :
        IF ok THEN phase' = "done" /\ UNCHANGED <<cause, logs>>
        ELSE Stop("exit", "goinstall") /\ logs' = Append(logs, [msg |-> "go install", arg |-> "failed"])
    /\ UNCHANGED <<calls, ip, destPkg, protocolData, jsProtocolData, protocol, jsProtocol,
                   nonPtrMap, gens, dirs, writes, fmtFailures, rtVars>>

Next ==
    \/ CheckFlags \/ ReadBrowser \/ DecodeBrowser \/ ReadJS \/ DecodeJS \/ MergeSort \/ Setup
    \/ DoPackageHeader \/ DoCdpClient \/ DoCmdType \/ DoEventType \/ Classify
    \/ DoDomain \/ DoDomainType \/ DoDomainCmd \/ DoDomainEvent \/ DoWriteFile
    \/ GoImports \/ GoInstall

Spec == Init /\ [][Next]_vars

(***************************************************************************)
(* Properties of the generator's run.                                      *)
(***************************************************************************)
\* Some call with one of these names has been made.
Executed(ops) == \E k \in 1..Len(calls) : k < ip /\ calls[k].op \in ops

PerDomainEmitters == {"Domain", "DomainType", "DomainCmd", "DomainEvent"}
DomainEmitters == PerDomainEmitters \cup {"CdpClient", "CmdType", "EventType"}

\* What the classification loop leaves in nonPtrMap once it has seen every
\* declared type of every domain.
WholeClassification ==
    UNION {UNION {ClassifyType("cdptype", protocol.Domains[i], protocol.Domains[i].Types[j]) :
                    j \in 1..Len(protocol.Domains[i].Types)} :
             i \in 1..Len(protocol.Domains)}

\* C1, as stated: once any emitter that takes a domain (or the domain list)
\* has been called, the classification map is complete.
C1_ClassifiedBeforeAnyEmission ==
    Executed(DomainEmitters) => nonPtrMap = WholeClassification

\* C1, amended: once any emitter of the per-domain loop (Domain, DomainType,
\* DomainCmd, DomainEvent) has been called, the classification map holds the
\* classification of every declared type of every domain, and so it does to
\* the end of the run.
C1_ClassifiedBeforePerDomainEmission ==
    Executed(PerDomainEmitters) => nonPtrMap = WholeClassification

C1_Witness ==
    /\ phase = "run" /\ Executed({"DomainCmd"})
    /\ nonPtrMap # {}
    /\ Len(protocol.Domains) >= 2

LoadPhases == {"flags", "readBrowser", "decodeBrowser", "readJS", "decodeJS"}

\* C2: a directory is created or a file written only after both documents
\* were read and decoded; a run that stops on a read or decode error has
\* created and written nothing.
C2_NoOutputBeforeDecode ==
    /\ (dirs # {} \/ Len(writes) > 0) =>
            protocolData.ok /\ jsProtocolData.ok /\ phase \notin LoadPhases
    /\ cause \in {"usage", "read", "decode"} => dirs = {} /\ Len(writes) = 0

C2_Witness ==
    phase = "panic" /\ cause = "decode" /\ protocolData.ok /\ Len(protocol.Domains) > 0

HeaderCount(buf) == Cardinality({i \in 1..Len(buf) : buf[i].k = "header"})
DeclCount(buf) == Cardinality({i \in 1..Len(buf) : buf[i].k # "header"})

\* C3: every file written holds at least one declaration besides the
\* package header, and a generator whose buffer holds no declaration when
\* writeFile is called writes nothing.
C3_OnlyContentPersisted ==
    /\ [](\A i \in 1..Len(writes) : DeclCount(writes[i].data.src) >= 1)
    /\ [][Running("writeFile") /\ DeclCount(CurGen.buf) = 0 => writes' = writes]_vars

\* A header-only command buffer was dropped and the run finished.
C3_Witness ==
    /\ phase = "done"
    /\ \E i \in 1..Len(logs) :
            logs[i] = [msg |-> "No content, skipping", arg |-> "GOPATH/src/x/cdp/cdpcmd/cdpcmd.go"]
    /\ \E d \in {protocol.Domains[i] : i \in 1..Len(protocol.Domains)} : Len(d.Commands) > 0

\* The PackageHeader calls made on generator n since its last writeFile.
HeaderCallsSinceWrite(n) ==
    {k \in 1..Len(calls) :
        /\ k < ip /\ calls[k].g = n /\ calls[k].op = "PackageHeader"
        /\ ~\E w \in (k + 1)..(ip - 1) : calls[w].g = n /\ calls[w].op = "writeFile"}

\* C4: no buffer, and no file written from one, holds the package header
\* more than once.
C4_HeaderAtMostOnce ==
    /\ \A n \in GenNames : HeaderCount(gens[n].buf) <= 1
    /\ \A i \in 1..Len(writes) : HeaderCount(writes[i].data.src) <= 1

C4_Witness ==
    \E n \in GenNames :
        Cardinality(HeaderCallsSinceWrite(n)) >= 2 /\ HeaderCount(gens[n].buf) = 1

\* C5: a writeFile call in which format.Source rejects the buffer writes
\* the buffer's own text to the file and main goes on with its next call;
\* only a failure of the write itself stops the run there.
C5_FormatFailureNotFatal ==
    [][Running("writeFile") /\ fmtFailures' # fmtFailures =>
          \/ /\ writes' = Append(writes,
                    [path |-> PathJoin(GenPath(CurGen), FileName(Cur, CurGen)),
                     data |-> [formatted |-> FALSE, src |-> CurGen.buf]])
             /\ ip' = ip + 1 /\ phase' \in {"run", "goimports"} /\ cause' = ""
          \/ phase' = "panic" /\ cause' = "write" /\ writes' = writes]_vars

C5_Witness ==
    /\ phase = "done"
    /\ \E i \in 1..Len(writes) : ~writes[i].data.formatted /\ i < Len(writes)

(***************************************************************************)
(* Properties of the loader.                                               *)
(***************************************************************************)
Range(s) == {s[i] : i \in 1..Len(s)}
NamesOf(ds) == [i \in 1..Len(ds) |-> ds[i].Domain]
Loaded == phase \notin LoadPhases /\ phase # "merge" /\ cause \notin {"usage", "read", "decode"}
Concatenated == protocolData.Domains \o jsProtocolData.Domains
DistinctNames(ds) == \A i, j \in 1..Len(ds) : i # j => ds[i].Domain # ds[j].Domain

\* names is the strictly increasing enumeration of the set S of strings.
IsLexSortOf(names, S) ==
    /\ Range(names) = S
    /\ \A i, j \in 1..Len(names) : i < j => StrLess(names[i], names[j])

\* C6: when the two documents' domain names are all distinct, the merged and
\* sorted sequence lists exactly their domains, by name in increasing
\* lexicographic order, and it is what merging the documents in the other
\* order would give.
C6_MergeSortCommutes ==
    Loaded /\ DistinctNames(Concatenated) =>
        /\ Range(protocol.Domains) = Range(Concatenated)
        /\ IsLexSortOf(NamesOf(protocol.Domains), Range(NamesOf(Concatenated)))
        /\ SortSlice(Merge(jsProtocolData.Domains, protocolData.Domains)) = {protocol.Domains}

C6_Witness ==
    /\ phase = "setup" /\ DistinctNames(Concatenated)
    /\ Len(protocolData.Domains) >= 1 /\ Len(jsProtocolData.Domains) >= 1
    /\ StrLess(jsProtocolData.Domains[1].Domain, protocolData.Domains[1].Domain)

\* The positions of the concatenated input that the sorted sequence lists,
\* when two domains of equal name keep their input order.
StableOrder(s, r) ==
    \E q \in IndexPermutations(Len(s)) :
        /\ r = [i \in 1..Len(s) |-> s[q[i]]]
        /\ \A i, j \in 1..Len(s) : i < j /\ s[q[i]].Domain = s[q[j]].Domain => q[i] < q[j]

\* C7: in the sorted sequence, domains of equal name stand in the order they
\* had in the concatenated input.
C7_SortIsStable ==
    Loaded => StableOrder(Concatenated, protocol.Domains)

(***************************************************************************)
(* The Command Emitter's setters.                                          *)
(***************************************************************************)
\* What a DomainCmd step appends to the command buffer.
Appended == SubSeq(gens'["cg"].buf, Len(gens["cg"].buf) + 1, Len(gens'["cg"].buf))
CurCommand == CurDomain.Commands[Cur.i]

\* The setters among chunks that set parameter p of the command.
SettersOf(chunks, d, c, p) ==
    {i \in 1..Len(chunks) :
        /\ chunks[i].k = "setter"
        /\ chunks[i].recvType = "*" \o ArgsName(d, c)
        /\ chunks[i].name = "Set" \o Title(p.NameName)}

ReturnsReceiver(chunk) == chunk.result = chunk.recvVar /\ chunk.resultType = chunk.recvType

\* The declaration of the merged schema that a property's $ref names, if any.
Declared(d, p) ==
    {t \in UNION {{[dom |-> protocol.Domains[i], type |-> protocol.Domains[i].Types[j]] :
                      j \in 1..Len(protocol.Domains[i].Types)} : i \in 1..Len(protocol.Domains)} :
        p.Ref # "" /\ Name(t.dom, t.type) = RefName(d, p.Ref)}

\* The shapes whose optional use needs no indirection: enumerated, array,
\* opaque payload.
ReferenceLike(t) ==
    \/ Len(t.Enum) > 0
    \/ t.Type = "array"
    \/ t.Type = "any"
    \/ t.Type = "object" /\ Len(t.Properties) = 0

\* The property resolves, itself or through its $ref, to such a shape.
NeedsNoIndirection(d, p) ==
    \/ p.Ref = "" /\ ReferenceLike(p)
    \/ \E t \in Declared(d, p) : ReferenceLike(t.type)

ArgsRecord(chunks, d, c) ==
    {i \in 1..Len(chunks) : chunks[i].k = "struct" /\ chunks[i].name = ArgsName(d, c)}

\* The property is itself enumerated, an array, a map or opaque.
OwnShapeNeedsNoIndirection(p) ==
    \/ Len(p.Enum) > 0
    \/ p.Ref = "" /\ p.Type \notin {"boolean", "integer", "number", "string", "object"}
    \/ p.Ref = "" /\ p.Type = "object" /\ Len(p.Properties) = 0

\* The parameter is optional, its type name is not in the classification
\* map and it is not of such a shape in itself.
IndirectByOptionality(d, p) ==
    /\ p.Optional
    /\ (IF p.Ref # "" THEN "cdptype." \o RefName(d, p.Ref) ELSE GoType("cdpcmd", d, p)) \notin nonPtrMap
    /\ ~OwnShapeNeedsNoIndirection(p)

AllDomains == Range(protocol.Domains)

\* The records the merged schema gives rise to: a declared type with
\* properties, a command's parameters, a command's returns, an event's
\* parameters, each with the generator that prints it and its Go name.
SchemaRecords ==
    UNION {
        {[g |-> "tg", d |-> d, name |-> Name(d, d.Types[i]), props |-> d.Types[i].Properties] :
            i \in {j \in 1..Len(d.Types) : d.Types[j].Type = "object"
                                            /\ Len(d.Types[j].Properties) > 0}}
        \cup {[g |-> "cg", d |-> d, name |-> ArgsName(d, d.Commands[i]),
               props |-> d.Commands[i].Parameters] :
                i \in {j \in 1..Len(d.Commands) : Len(d.Commands[j].Parameters) > 0}}
        \cup {[g |-> "cg", d |-> d, name |-> ReplyName(d, d.Commands[i]),
               props |-> d.Commands[i].Returns] :
                i \in {j \in 1..Len(d.Commands) : Len(d.Commands[j].Returns) > 0}}
        \cup {[g |-> "eg", d |-> d, name |-> EventReplyName(d, d.Events[i]),
               props |-> d.Events[i].Parameters] : i \in 1..Len(d.Events)}
        : d \in AllDomains}

\* The field lists a buffer holds under a record's name.
FieldsIn(buf, name) ==
    {buf[i].fields : i \in {j \in 1..Len(buf) : buf[j].k = "struct" /\ buf[j].name = name}}
    \cup {buf[i].def.fields :
            i \in {j \in 1..Len(buf) : buf[j].k = "type" /\ buf[j].name = name
                                        /\ buf[j].def.k = "struct"}}

\* The record R as its generator's buffer holds it.
EmittedFields(R) == FieldsIn(gens[R.g].buf, R.name)

Indirect(field) == HasPrefix(field.type, "*")

\* The property refers to a declared type that is a record.
RecordTyped(d, p) ==
    \E t \in Declared(d, p) : t.type.Type = "object" /\ Len(t.type.Properties) > 0

\* The property refers to the record that holds it.
SelfTyped(R, p) == R.g = "tg" /\ p.Ref # "" /\ RefName(R.d, p.Ref) = R.name

C12_SelfTypedOnceIndirect ==
    \A R \in SchemaRecords : \A fields \in EmittedFields(R) :
        /\ Len(fields) = Len(R.props)
        /\ \A i \in 1..Len(R.props) :
              SelfTyped(R, R.props[i]) => fields[i].type = "*" \o R.name

\* DOMNode is in the type buffer with its optional parent and its required
\* owner, both of type DOMNode.
C12_Witness ==
    \E R \in SchemaRecords : \E fields \in EmittedFields(R) :
        /\ R.name = "DOMNode"
        /\ \E i, j \in 1..Len(R.props) :
              /\ SelfTyped(R, R.props[i]) /\ R.props[i].Optional
              /\ SelfTyped(R, R.props[j]) /\ ~R.props[j].Optional
              /\ fields[i].type = "*DOMNode" /\ fields[j].type = "*DOMNode"

(***************************************************************************)
(* The Command Emitter's payloads and the two registries.                  *)
(***************************************************************************)
\* How many records of that name the chunks hold.
RecordCount(chunks, name) ==
    Cardinality({i \in 1..Len(chunks) : chunks[i].k = "struct" /\ chunks[i].name = name})

\* C13: DomainCmd prints the argument record of a command exactly when the
\* command has a parameter and its reply record exactly when it has a
\* return, and no other record; for a command with neither it leaves the
\* generator, buffer and hasContent, as it was.
C13_PayloadsIffDeclared ==
    [][Running("DomainCmd") =>
          /\ RecordCount(Appended, ArgsName(CurDomain, CurCommand))
                = IF Len(CurCommand.Parameters) > 0 THEN 1 ELSE 0
          /\ RecordCount(Appended, ReplyName(CurDomain, CurCommand))
                = IF Len(CurCommand.Returns) > 0 THEN 1 ELSE 0
          /\ \A i \in 1..Len(Appended) :
                Appended[i].k = "struct" =>
                    Appended[i].name \in {ArgsName(CurDomain, CurCommand),
                                          ReplyName(CurDomain, CurCommand)}
          /\ Len(CurCommand.Parameters) = 0 /\ Len(CurCommand.Returns) = 0 =>
                gens'["cg"] = gens["cg"]]_vars

\* DomainCmd has run for reload (parameters only), enable (nothing) and
\* search (both) of Page.
C13_Witness ==
    /\ ip > 1 /\ ip - 1 <= Len(calls) /\ calls[ip - 1].op = "DomainCmd"
    /\ protocol.Domains[calls[ip - 1].d].Commands[calls[ip - 1].i].NameName = "search"
    /\ RecordCount(gens["cg"].buf, "PageReloadArgs") = 1
    /\ RecordCount(gens["cg"].buf, "PageReloadReply") = 0
    /\ RecordCount(gens["cg"].buf, "PageEnableArgs") = 0
    /\ RecordCount(gens["cg"].buf, "PageEnableReply") = 0
    /\ RecordCount(gens["cg"].buf, "PageSearchArgs") = 1
    /\ RecordCount(gens["cg"].buf, "PageSearchReply") = 1

\* The wire names of the commands, and of the events, the merged schema
\* declares, each with the positions that declare it.
CommandDecls(wire) ==
    {<<i, j>> \in UNION {{<<i, j>> : j \in 1..Len(protocol.Domains[i].Commands)} :
                            i \in 1..Len(protocol.Domains)} :
        protocol.Domains[i].Domain \o "." \o protocol.Domains[i].Commands[j].NameName = wire}
EventDecls(wire) ==
    {<<i, j>> \in UNION {{<<i, j>> : j \in 1..Len(protocol.Domains[i].Events)} :
                            i \in 1..Len(protocol.Domains)} :
        protocol.Domains[i].Domain \o "." \o protocol.Domains[i].Events[j].NameName = wire}
CommandWireNames ==
    UNION {{protocol.Domains[i].Domain \o "." \o protocol.Domains[i].Commands[j].NameName :
                j \in 1..Len(protocol.Domains[i].Commands)} : i \in 1..Len(protocol.Domains)}
EventWireNames ==
    UNION {{protocol.Domains[i].Domain \o "." \o protocol.Domains[i].Events[j].NameName :
                j \in 1..Len(protocol.Domains[i].Events)} : i \in 1..Len(protocol.Domains)}

\* The registries, of that kind, that the buffers and the written files hold.
Registries(kind) ==
    UNION {{gens[n].buf[i] : i \in {j \in 1..Len(gens[n].buf) : gens[n].buf[j].k = kind}} :
              n \in GenNames}
    \cup UNION {{writes[w].data.src[i] :
                    i \in {j \in 1..Len(writes[w].data.src) : writes[w].data.src[j].k = kind}} :
                  w \in 1..Len(writes)}

ConstsValued(reg, wire) == {k \in 1..Len(reg.consts) : reg.consts[k].value = wire}

\* C14: a registry holds, for every wire name "<domain>.<name>", as many
\* constants of that value as the merged schema has declarations of it, one
\* for a name declared once, and no constant of any other value.
C14_RegistryPerDeclaration ==
    /\ \A reg \in Registries("cmdtype") :
          /\ \A w \in CommandWireNames :
                Cardinality(ConstsValued(reg, w)) = Cardinality(CommandDecls(w))
          /\ \A k \in 1..Len(reg.consts) : reg.consts[k].value \in CommandWireNames
    /\ \A reg \in Registries("eventtype") :
          /\ \A w \in EventWireNames :
                Cardinality(ConstsValued(reg, w)) = Cardinality(EventDecls(w))
          /\ \A k \in 1..Len(reg.consts) : reg.consts[k].value \in EventWireNames

\* cmd.go and event.go are written for DOM and Page.
C14_Witness ==
    /\ \E w \in 1..Len(writes) : \E i \in 1..Len(writes[w].data.src) :
          /\ writes[w].path = "GOPATH/src/x/cdp/cdpcmd/cmd.go"
          /\ writes[w].data.src[i].k = "cmdtype"
          /\ Len(writes[w].data.src[i].consts) = 4
          /\ writes[w].data.src[i].consts[2] = [name |-> "PageReload", value |-> "Page.reload"]
    /\ \E w \in 1..Len(writes) : \E i \in 1..Len(writes[w].data.src) :
          /\ writes[w].path = "GOPATH/src/x/cdp/cdpevent/event.go"
          /\ writes[w].data.src[i].k = "eventtype"
          /\ Len(writes[w].data.src[i].consts) = 2

(***************************************************************************)
(* The run as a function of the sorted domains.                            *)
(***************************************************************************)
\* The generators, the classification map and the files written after one
\* call of main, when format.Source and ioutil.WriteFile raise nothing.
ApplyCall(st, call, domains) ==
    LET G == st.gens[call.g]
        d == domains[call.d]
        put(H) == [st EXCEPT !.gens[call.g] = H]
    IN CASE call.op = "PackageHeader" -> put(PackageHeader(G))
         [] call.op = "CdpClient" -> put(CdpClient(G, domains))
         [] call.op = "CmdType" -> put(CmdType(G, domains))
         [] call.op = "EventType" -> put(EventType(G, domains))
         [] call.op = "classify" ->
                [st EXCEPT !.npm = @ \cup ClassifyType(st.gens["tg"].pkg, d, d.Types[call.i])]
         [] call.op = "Domain" -> put(Domain(G, d))
         [] call.op = "DomainType" -> put(DomainType(G, st.npm, d, d.Types[call.i]))
         [] call.op = "DomainCmd" -> put(DomainCmd(G, st.npm, d, d.Commands[call.i]))
         [] call.op = "DomainEvent" -> put(DomainEvent(G, st.npm, d, d.Events[call.i]))
         [] call.op = "writeFile" ->
                IF ~G.hasContent THEN put(clear(G))
                ELSE IF Len(G.buf) = 0 THEN st
                ELSE [st EXCEPT !.gens[call.g] = clear(G),
                                !.files = Append(@, [path |-> PathJoin(GenPath(G), FileName(call, G)),
                                                     src |-> G.buf])]

RECURSIVE RunCalls(_, _, _, _)
RunCalls(st, cs, k, domains) ==
    IF k > Len(cs) THEN st ELSE RunCalls(ApplyCall(st, cs[k], domains), cs, k + 1, domains)

\* The files a complete run writes for the domains in that order.
OutputsOf(domains) ==
    RunCalls([gens |-> SetupGenerators(destPkg), npm |-> {}, files |-> <<>>],
             MainCalls(domains), 1, domains).files

\* The files this run has written: path and text.
Files == [i \in 1..Len(writes) |-> [path |-> writes[i].path, src |-> writes[i].data.src]]

AllWritten == Len(calls) > 0 /\ ip > Len(calls)

\* The path of file f of generator n.
FilePath(n, f) == PathJoin(GenPath(SetupGenerators(destPkg)[n]), f)

\* The chunks of that kind in the file written at the path, in order: none
\* when no file was written there.
Written(path, kind) ==
    IF \E w \in 1..Len(writes) : writes[w].path = path
    THEN SelectSeq(writes[CHOOSE w \in 1..Len(writes) : writes[w].path = path].data.src,
                   LAMBDA c : c.k = kind)
    ELSE <<>>

RECURSIVE SumTo(_, _)
SumTo(lens, n) == IF n = 0 THEN 0 ELSE lens[n] + SumTo(lens, n - 1)

\* out lists item(i, j) for the domains i in order and, within a domain,
\* for j from 1 to lens[i] in order, and nothing else.
InOrder(out, lens, item(_, _)) ==
    /\ Len(out) = SumTo(lens, Len(lens))
    /\ \A i \in 1..Len(lens) : \A j \in 1..lens[i] : out[SumTo(lens, i - 1) + j] = item(i, j)

Doms == protocol.Domains
TypeLens == [i \in 1..Len(Doms) |-> Len(Doms[i].Types)]
CommandLens == [i \in 1..Len(Doms) |-> Len(Doms[i].Commands)]
EventLens == [i \in 1..Len(Doms) |-> Len(Doms[i].Events)]
OnePerDomain == [i \in 1..Len(Doms) |-> 1]

\* The names of the payload records of the commands with a payload, in
\* the order of the domains and of their commands.
PayloadNames ==
    Flatten([i \in 1..Len(Doms) |-> Flatten([j \in 1..Len(Doms[i].Commands) |->
        (IF Len(Doms[i].Commands[j].Parameters) > 0
         THEN <<ArgsName(Doms[i], Doms[i].Commands[j])>> ELSE <<>>)
        \o (IF Len(Doms[i].Commands[j].Returns) > 0
            THEN <<ReplyName(Doms[i], Doms[i].Commands[j])>> ELSE <<>>)])])

NameSeq(chunks) == [i \in 1..Len(chunks) |-> chunks[i].name]
ValueSeq(chunks) == [i \in 1..Len(chunks) |-> chunks[i].value]

\* C18: once the files are written, the domains are in increasing order of
\* name; the client has one field and one initializer per domain, in that
\* order; the two registries list the commands and the events by domain in
\* that order and by declaration within a domain; so do the declarations
\* of cdp.go, cdptype.go, cdpcmd.go and cdpevent.go.
C18_OutputInDomainOrder ==
    AllWritten =>
        /\ \A i, j \in 1..Len(Doms) : i < j => ~StrLess(Doms[j].Domain, Doms[i].Domain)
        /\ \A c \in Range(Written(FilePath("g", "cdp_client.go"), "client")) :
              /\ InOrder(NameSeq(c.fields), OnePerDomain, LAMBDA i, j : Doms[i].Domain)
              /\ InOrder(NameSeq(c.newFields), OnePerDomain, LAMBDA i, j : Doms[i].Domain)
        /\ Len(Written(FilePath("g", "cdp_client.go"), "client")) = 1
        /\ \A c \in Range(Written(FilePath("cg", "cmd.go"), "cmdtype")) :
              InOrder(ValueSeq(c.consts), CommandLens,
                      LAMBDA i, j : Doms[i].Domain \o "." \o Doms[i].Commands[j].NameName)
        /\ \A c \in Range(Written(FilePath("eg", "event.go"), "eventtype")) :
              InOrder(ValueSeq(c.consts), EventLens,
                      LAMBDA i, j : Doms[i].Domain \o "." \o Doms[i].Events[j].NameName)
        /\ InOrder(NameSeq(Written(FilePath("g", "cdp.go"), "domain")), OnePerDomain,
                   LAMBDA i, j : Doms[i].Domain)
        /\ \A i \in 1..Len(Doms) :
              LET def == Written(FilePath("g", "cdp.go"), "domain")[i].interfaceDef
              IN /\ Len(def) = Len(Doms[i].Commands) + Len(Doms[i].Events)
                 /\ \A j \in 1..Len(Doms[i].Commands) :
                       def[j].k = "command" /\ def[j].name = Title(Doms[i].Commands[j].NameName)
                 /\ \A j \in 1..Len(Doms[i].Events) :
                       /\ def[Len(Doms[i].Commands) + j].k = "event"
                       /\ def[Len(Doms[i].Commands) + j].name = Title(Doms[i].Events[j].NameName)
        /\ InOrder(NameSeq(Written(FilePath("tg", "cdptype.go"), "type")), TypeLens,
                   LAMBDA i, j : Doms[i].Domain \o Doms[i].Types[j].IDName)
        /\ NameSeq(Written(FilePath("cg", "cdpcmd.go"), "struct")) = PayloadNames
        /\ InOrder(NameSeq(Written(FilePath("eg", "cdpevent.go"), "eventclient")), EventLens,
                   LAMBDA i, j : Doms[i].Domain \o Title(Doms[i].Events[j].NameName) \o "Client")

\* The run on DOM and Page has written its seven files.
C18_Witness ==
    /\ phase = "done" /\ Len(writes) = 7
    /\ NamesOf(Doms) = <<"DOM", "Page">>
    /\ Len(jsProtocolData.Domains) = 1 /\ jsProtocolData.Domains[1].Domain = "DOM"

(***************************************************************************)
(* The facade against the command and event packages.                      *)
(***************************************************************************)
\* The name that the qualified name s has in package pkg: "" when s is not
\* a name of that package.
Unqualified(pkg, s) ==
    IF HasPrefix(s, pkg \o ".") THEN SubSeq(s, Len(pkg) + 2, Len(s)) ELSE ""

\* How many of the chunks carry that name.
CountNamed(chunks, name) == Cardinality({k \in 1..Len(chunks) : chunks[k].name = name})

\* The constants of the registry written at the path.
WrittenConsts(path, kind) ==
    Flatten([k \in 1..Len(Written(path, kind)) |-> Written(path, kind)[k].consts])

\* The entries of a facade's definitions with that kind and name.
Entries(def, kind, name) == {def[k] : k \in {x \in 1..Len(def) : def[x].k = kind /\ def[x].name = name}}

\* The facade's operation for command c of domain d agrees with cdpcmd.
CommandConsistent(facade, d, c) ==
    LET hasArgs == Len(c.Parameters) > 0
        hasReply == Len(c.Returns) > 0
        payloads == Written(FilePath("cg", "cdpcmd.go"), "struct")
        consts == WrittenConsts(FilePath("cg", "cmd.go"), "cmdtype")
    IN /\ Cardinality(Entries(facade.domDef, "func", Title(c.NameName))) = 1
       /\ \A f \in Entries(facade.domDef, "func", Title(c.NameName)) :
            /\ (f.request # "") = hasArgs
            /\ (f.invoke.args = "args") = hasArgs /\ f.invoke.args \in {"args", "nil"}
            /\ hasArgs =>
                  /\ HasPrefix(f.request, ", args *cdpcmd.")
                  /\ CountNamed(payloads, SubSeq(f.request, Len(", args *cdpcmd.") + 1,
                                                 Len(f.request))) = 1
            /\ (f.newReply # "") = hasReply
            /\ (f.invoke.reply = "reply") = hasReply /\ f.invoke.reply \in {"reply", "nil"}
            /\ hasReply =>
                  /\ CountNamed(payloads, Unqualified("cdpcmd", f.newReply)) = 1
                  /\ f.reply = "(reply *" \o f.newReply \o ", err error)"
            /\ ~hasReply => f.reply = "(err error)"
            /\ CountNamed(consts, Unqualified("cdpcmd", f.invoke.cmd)) = 1
            /\ \A k \in 1..Len(consts) :
                  consts[k].name = Unqualified("cdpcmd", f.invoke.cmd) =>
                        consts[k].value = d.Domain \o "." \o c.NameName
       /\ \A i \in Entries(facade.interfaceDef, "command", Title(c.NameName)) :
            /\ (i.request # "") = hasArgs
            /\ (i.reply # "error") = hasReply

\* The facade's operation for event ev of domain d agrees with cdpevent.
EventConsistent(facade, d, ev) ==
    LET decls == Written(FilePath("eg", "cdpevent.go"), "struct")
        clients == Written(FilePath("eg", "cdpevent.go"), "eventclient")
        consts == WrittenConsts(FilePath("eg", "event.go"), "eventtype")
    IN /\ Cardinality(Entries(facade.domDef, "eventfunc", Title(ev.NameName))) = 1
       /\ \A f \in Entries(facade.domDef, "eventfunc", Title(ev.NameName)) :
            /\ CountNamed(clients, Unqualified("cdpevent", f.result)) = 1
            /\ CountNamed(consts, Unqualified("cdpevent", f.stream)) = 1
            /\ \A k \in 1..Len(consts) :
                  consts[k].name = Unqualified("cdpevent", f.stream) =>
                        consts[k].value = d.Domain \o "." \o ev.NameName
            /\ \E k \in 1..Len(facade.domDef) :
                  /\ facade.domDef[k].k = "recv" /\ facade.domDef[k].impl = f.impl
                  /\ "cdpevent." \o facade.domDef[k].implements = f.result
                  /\ CountNamed(decls, Unqualified("cdpevent", facade.domDef[k].event)) = 1
                  /\ \A x \in 1..Len(clients) :
                        clients[x].name = Unqualified("cdpevent", f.result) =>
                            "cdpevent." \o SubSeq(clients[x].recv, 2, Len(clients[x].recv))
                                = facade.domDef[k].event

\* The Go names of the commands, and of the events, in the order of the
\* registries.
CommandGoNames ==
    Flatten([i \in 1..Len(Doms) |-> [j \in 1..Len(Doms[i].Commands) |->
                Doms[i].Domain \o Title(Doms[i].Commands[j].NameName)]])
EventGoNames ==
    Flatten([i \in 1..Len(Doms) |-> [j \in 1..Len(Doms[i].Events) |->
                Doms[i].Domain \o Title(Doms[i].Events[j].NameName)]])
Injective(names) == \A i, j \in 1..Len(names) : i # j => names[i] # names[j]

GeneratedFiles ==
    {"cdp_client.go", "cdp.go", "cmd.go", "cdpcmd.go", "event.go", "cdpevent.go", "cdptype.go"}

\* The writes i and j are files of one generator.
SameGenerator(i, j) ==
    \E n \in GenNames : {writes[i].path, writes[j].path} \subseteq {FilePath(n, f) : f \in GeneratedFiles}

Declarations(buf) == {buf[k] : k \in {x \in 1..Len(buf) : buf[x].k # "header"}}

\* The generator as Setup configured it, with nothing printed.
Fresh(G) == [G EXCEPT !.buf = <<>>, !.hasHeader = FALSE, !.hasContent = FALSE]

\* C20: a writeFile call that returns (it wrote the file or skipped it)
\* leaves its generator with an empty buffer and both flags false; every
\* file written starts with a package header and holds no other, and holds
\* no declaration of an earlier file of the same generator; hasContent is
\* never true of an empty buffer, and writeFile never skips for an empty
\* buffer.
C20_GeneratorResetBetweenFiles ==
    /\ [][Running("writeFile") /\ ip' = ip + 1 =>
            gens'[Cur.g] = Fresh(gens[Cur.g]) /\ gens'[Cur.g].pkg # ""]_vars
    /\ [](\A i \in 1..Len(writes) :
            /\ Len(writes[i].data.src) > 0
            /\ writes[i].data.src[1].k = "header"
            /\ HeaderCount(writes[i].data.src) = 1)
    /\ [](\A i, j \in 1..Len(writes) :
            i < j /\ SameGenerator(i, j) =>
                Declarations(writes[i].data.src) \cap Declarations(writes[j].data.src) = {})
    /\ [](\A n \in GenNames : gens[n].hasContent => Len(gens[n].buf) > 0)
    /\ [](\A i \in 1..Len(logs) : logs[i].msg # "Empty buffer, skipping")

\* Every generator wrote its second file (the type generator its only one)
\* and all four are empty again.
C20_Witness ==
    /\ AllWritten
    /\ \A n \in {"g", "cg", "eg"} :
          \E i, j \in 1..Len(writes) : i < j /\ SameGenerator(i, j) /\ writes[j].path \in
                {FilePath(n, f) : f \in GeneratedFiles}
    /\ \A n \in GenNames : gens[n] = Fresh(gens[n])

(***************************************************************************)
(* The abort on an enumeration that is not a string.                       *)
(***************************************************************************)
\* A declared type with labels whose primitive kind is not string.
NonStringEnum(t) == IsEnum(t) /\ t.Type # "string"

\* One of the two documents declares such a type.
DeclaresNonStringEnum ==
    \E doc \in {protocolData, jsProtocolData} :
        \E i \in 1..Len(doc.Domains) :
            \E j \in 1..Len(doc.Domains[i].Types) : NonStringEnum(doc.Domains[i].Types[j])

WrittenPaths == {writes[i].path : i \in 1..Len(writes)}
FirstFiles == {FilePath("g", "cdp_client.go"), FilePath("cg", "cmd.go"), FilePath("eg", "event.go")}
LastFiles ==
    {FilePath("tg", "cdptype.go"), FilePath("cg", "cdpcmd.go"),
     FilePath("eg", "cdpevent.go"), FilePath("g", "cdp.go")}

Digits == "0123456789"
\* fmt's %d for the small values the model uses.
Itoa(n) == SubSeq(Digits, n + 1, n + 1)

\* The value of the i-th name of the const block: iota counts from 0.
Iota(decl, i) == i - 1

\* func (e T) String() string
EnumString(decl, v) ==
    IF \E i \in 1..Len(decl.stringCases) : decl.stringCases[i].ord = v
    THEN decl.stringCases[CHOOSE i \in 1..Len(decl.stringCases) : decl.stringCases[i].ord = v].result
    ELSE decl.stringDefault \o "(" \o Itoa(v) \o ")"

\* encoding/json writes a string between quotes and escapes the character <,
\* among others, as a backslash, u and its code 003c.
RECURSIVE JSONEscape(_)
JSONEscape(str) ==
    IF Len(str) = 0 THEN ""
    ELSE (IF SubSeq(str, 1, 1) = "<" THEN "\\u003c" ELSE SubSeq(str, 1, 1))
         \o JSONEscape(SubSeq(str, 2, Len(str)))

\* json.Marshal of a Go string
JSONMarshalString(str) == "\"" \o JSONEscape(str) \o "\""

\* func (e T) MarshalJSON() ([]byte, error)
EnumMarshalJSON(decl, v) ==
    IF v = 0 THEN Bytes(decl.marshalZero) ELSE Bytes(JSONMarshalString(EnumString(decl, v)))

\* func (e *T) UnmarshalJSON(data []byte) error: the value *e holds after
\* the call and the error returned ("" for nil).
EnumUnmarshalJSON(decl, v, dat) ==
    IF dat.nil THEN [e |-> 0, err |-> ""]
    ELSE IF \E i \in 1..Len(decl.unmarshalCases) : decl.unmarshalCases[i].data = dat.bytes
    THEN [e |-> decl.unmarshalCases[
                    CHOOSE i \in 1..Len(decl.unmarshalCases) :
                        /\ decl.unmarshalCases[i].data = dat.bytes
                        /\ \A j \in 1..(i - 1) : decl.unmarshalCases[j].data # dat.bytes].ord,
          err |-> ""]
    ELSE [e |-> v, err |-> decl.unmarshalErr \o dat.bytes]

\* The labels the enumerations of the model are declared with.  A label
\* becomes part of a Go constant name, so it is made of letters, digits and
\* dashes.
LabelUniverse == {"png", "null", "first-line"}

\* The declared enumerated types: a string type of the cdptype package with
\* one to MaxLabels distinct labels.
EnumTypes ==
    {WithEnum(TypeDef("Format", "string"), labels) :
        labels \in UNION {InjSeqs(LabelUniverse, n) : n \in 1..MaxLabels}}

\* What the peer can put on the wire for the value, and the nil slice a
\* direct caller can pass.
WireInputs ==
    {NilBytes, Bytes(""), Bytes("null"), Bytes("png"), Bytes("\"gif\""), Bytes("\"FormatNotSet\"")}
    \cup {Bytes("\"" \o l \o "\"") : l \in LabelUniverse}

EnumInit ==
    /\ GenInit /\ destPkg = "x/cdp"
    /\ \E t \in EnumTypes :
          enumType = domainTypeEnum([ZeroGenerator EXCEPT !.pkg = "cdptype"], DomPage, t)
    /\ e = 0 /\ target = 0 /\ data = NilBytes /\ err = "" /\ lastOp = ""
    /\ rawType = NoEnum /\ m = NilBytes
    /\ recvDecl = NoEnum /\ stream = NoStream /\ event = "nil"

\* The client code assigns one of the constants, or a value out of range.
EnumAssign ==
    /\ \E i \in 1..(Len(enumType.consts) + 1) : e' = Iota(enumType, i)
    /\ lastOp' = "assign"
    /\ UNCHANGED <<genVars, rawVars, recvVars, enumType, target, data, err>>

\* The client code presets the value it will decode into.
EnumPreset ==
    /\ \E i \in 1..Len(enumType.consts) : target' = Iota(enumType, i)
    /\ lastOp' = "preset"
    /\ UNCHANGED <<genVars, rawVars, recvVars, enumType, e, data, err>>

\* e.MarshalJSON()
EnumMarshal ==
    /\ data' = EnumMarshalJSON(enumType, e)
    /\ err' = ""
    /\ lastOp' = "MarshalJSON"
    /\ UNCHANGED <<genVars, rawVars, recvVars, enumType, e, target>>

\* Bytes arrive from the peer.
EnumReceive ==
    /\ \E w \in WireInputs : data' = w
    /\ lastOp' = "receive"
    /\ UNCHANGED <<genVars, rawVars, recvVars, enumType, e, target, err>>

\* target.UnmarshalJSON(data)
EnumUnmarshal ==
    /\ target' = EnumUnmarshalJSON(enumType, target, data).e
    /\ err' = EnumUnmarshalJSON(enumType, target, data).err
    /\ lastOp' = "UnmarshalJSON"
    /\ UNCHANGED <<genVars, rawVars, recvVars, enumType, e, data>>

EnumNext == EnumAssign \/ EnumPreset \/ EnumMarshal \/ EnumReceive \/ EnumUnmarshal

EnumSpec == EnumInit /\ [][EnumNext]_vars

NumLabels == Len(enumType.consts) - 1

\* C8: encoding ordinal 0 gives the bytes null, and decoding those bytes
\* succeeds and gives ordinal 0.
C8_ZeroRoundTrips ==
    /\ lastOp = "MarshalJSON" /\ e = 0 => data = Bytes("null")
    /\ lastOp = "UnmarshalJSON" /\ data = EnumMarshalJSON(enumType, 0) =>
            err = "" /\ target = 0

\* C9: the i-th label has ordinal i; encoding ordinal i gives the i-th label
\* as a wire string, and decoding that wire string gives ordinal i;
\* decoding any other bytes fails with an error that names the type and the
\* bytes, and leaves the target as it was.
C9_LabelsRoundTrip ==
    /\ [](\A i \in 1..NumLabels :
            /\ enumType.consts[i + 1] = enumType.name \o EnumLabelName(enumType.stringCases[i + 1].result)
            /\ Iota(enumType, i + 1) = i
            /\ lastOp = "MarshalJSON" /\ e = i =>
                    data = Bytes("\"" \o enumType.stringCases[i + 1].result \o "\"")
            /\ lastOp = "UnmarshalJSON"
               /\ data = Bytes("\"" \o enumType.stringCases[i + 1].result \o "\"") =>
                    err = "" /\ target = i)
    /\ [][lastOp' = "UnmarshalJSON" /\ ~data.nil
          /\ (\A i \in 1..NumLabels :
                data.bytes # "\"" \o enumType.stringCases[i + 1].result \o "\"")
          => err' = "bad " \o enumType.name \o ": " \o data.bytes /\ target' = target]_vars

\* Ordinal 2 was encoded and the bytes decoded into a target that held
\* another value.
C9_Witness ==
    /\ lastOp = "UnmarshalJSON" /\ NumLabels >= 2 /\ e = 2
    /\ data = EnumMarshalJSON(enumType, 2)
    /\ err = "" /\ target = 2

(***************************************************************************)
(* The code domainTypeRawMessage generates, run.  rawType is the           *)
(* declaration the generator printed, m the value of the generated []byte  *)
(* type.                                                                   *)
(***************************************************************************)
\* A decoder that appends to the bytes the target holds.
RawUnmarshalJSONAppends(decl, ptrNil, v, dat) ==
    IF ptrNil THEN [m |-> v, err |-> decl.unmarshalNilErr]
    ELSE [m |-> IF v.nil /\ Len(dat.bytes) = 0 THEN NilBytes ELSE Bytes(v.bytes \o dat.bytes),
          err |-> ""]

\* func (m T) MarshalJSON() ([]byte, error)
RawMarshalJSON(decl, v) == IF v.nil THEN Bytes(decl.marshalNil) ELSE v

\* func (m *T) UnmarshalJSON(data []byte) error: the value *m holds after
\* the call and the error returned.  append((*m)[0:0], data...) is nil only
\* when *m was nil and data is empty.
RawUnmarshalJSON(decl, ptrNil, v, dat) ==
    IF ptrNil THEN [m |-> v, err |-> decl.unmarshalNilErr]
    ELSE [m |-> IF v.nil /\ Len(dat.bytes) = 0 THEN NilBytes ELSE Bytes(dat.bytes),
          err |-> ""]

\* Byte contents: JSON texts and texts that are not JSON.
RawContents == {"", "null", "{}", "{\"a\":1}", "<a"}

\* The declared opaque types: the objects without properties.
RawTypes == {TypeDef("Blob", "object"), TypeDef("Handle", "object")}

RawInit ==
    /\ GenInit /\ destPkg = "x/cdp"
    /\ enumType = NoEnum /\ e = 0 /\ target = 0
    /\ \E t \in RawTypes :
          rawType = domainTypeRawMessage([ZeroGenerator EXCEPT !.pkg = "cdptype"], DomDOM, t)
    /\ m = NilBytes /\ data = NilBytes /\ err = "" /\ lastOp = ""
    /\ recvDecl = NoEnum /\ stream = NoStream /\ event = "nil"

\* The client code sets the value.
RawAssign ==
    /\ \E v \in {NilBytes} \cup {Bytes(c) : c \in RawContents} : m' = v
    /\ lastOp' = "assign"
    /\ UNCHANGED <<genVars, enumVars, recvVars, rawType, data, err>>

\* m.MarshalJSON()
RawMarshal ==
    /\ data' = RawMarshalJSON(rawType, m)
    /\ err' = ""
    /\ lastOp' = "MarshalJSON"
    /\ UNCHANGED <<genVars, enumVars, recvVars, rawType, m>>

\* Bytes arrive from the peer.
RawReceive ==
    /\ \E c \in RawContents : data' = Bytes(c)
    /\ lastOp' = "receive"
    /\ UNCHANGED <<genVars, enumVars, recvVars, rawType, m, err>>

\* (&m).UnmarshalJSON(data), or the call on a nil pointer.
RawUnmarshal ==
    /\ \E ptrNil \in BOOLEAN :
          /\ m' = RawUnmarshalJSON(rawType, ptrNil, m, data).m
          /\ err' = RawUnmarshalJSON(rawType, ptrNil, m, data).err
          /\ lastOp' = IF ptrNil THEN "UnmarshalJSON on nil" ELSE "UnmarshalJSON"
    /\ UNCHANGED <<genVars, enumVars, recvVars, rawType, data>>

RawNext == RawAssign \/ RawMarshal \/ RawReceive \/ RawUnmarshal

RawSpec == RawInit /\ [][RawNext]_vars

\* C16: encoding the nil value gives the bytes null and encoding any other
\* value gives its bytes; decoding into a target succeeds for any bytes and
\* leaves the target holding those bytes, so that encoding it again gives
\* back non-empty bytes as they were; decoding through a nil pointer
\* returns an error and leaves the value alone.
C16_OpaqueCarriedVerbatim ==
    /\ [](/\ lastOp = "MarshalJSON" /\ m.nil => data = Bytes("null") /\ err = ""
          /\ lastOp = "MarshalJSON" /\ ~m.nil => data = m /\ err = ""
          /\ lastOp = "UnmarshalJSON" => err = "" /\ m.bytes = data.bytes)
    /\ [][lastOp = "UnmarshalJSON" /\ lastOp' = "MarshalJSON" /\ Len(data.bytes) > 0
            => data' = data]_vars
    /\ [][lastOp' = "UnmarshalJSON on nil" => err' # "" /\ m' = m]_vars

\* Bytes that are not JSON were decoded into the target.
C16_Witness ==
    /\ lastOp = "UnmarshalJSON" /\ data = Bytes("<a") /\ m = Bytes("<a") /\ err = ""
    /\ rawType.unmarshalNilErr = "cdptype.DOMBlob: UnmarshalJSON on nil pointer"

(***************************************************************************)
(* The event client Generator.Domain generates, run.  recvDecl is the      *)
(* declaration the generator printed; stream is the rpcc.Stream it embeds: *)
(* the messages the peer has sent and the position of the next one.        *)
(***************************************************************************)
\* What the peer can send: text that decodes into the event's payload and
\* text that does not, with the error the decoder gives for it.
Messages ==
    {[text |-> "{}", cause |-> ""],
     [text |-> "<a", cause |-> "invalid character '<' looking for beginning of value"]}

\* rpcc.Stream.RecvMsg(event), with a message waiting or the stream closed:
\* the message is taken from the stream and decoded into event.
RecvMsg(st) ==
    IF ~st.open THEN [event |-> "nil", err |-> "rpcc: the stream is closed", stream |-> st]
    ELSE [event |-> IF st.msgs[st.next].cause = "" THEN st.msgs[st.next].text ELSE "zero",
          err |-> st.msgs[st.next].cause,
          stream |-> [st EXCEPT !.next = @ + 1]]

\* A receiver that closes its stream when a message does not decode.
RecvClosesOnError(decl, st) ==
    LET r == RecvMsg(st)
    IN IF r.err # ""
       THEN [event |-> "nil", err |-> decl.errPrefix \o r.err,
             stream |-> [r.stream EXCEPT !.open = FALSE]]
       ELSE [event |-> r.event, err |-> "", stream |-> r.stream]

\* func (c *impl) Recv() (*cdpevent.Reply, error)
Recv(decl, st) ==
    LET r == RecvMsg(st)
    IN IF r.err # ""
       THEN [event |-> "nil", err |-> decl.errPrefix \o r.err, stream |-> r.stream]
       ELSE [event |-> r.event, err |-> "", stream |-> r.stream]

\* The events of the schema with their domains.
EventDeclarations ==
    UNION {{[d |-> d, ev |-> d.Events[i]] : i \in 1..Len(d.Events)} : d \in DomainUniverse}

RecvInit ==
    /\ GenInit /\ destPkg = "x/cdp"
    /\ enumType = NoEnum /\ e = 0 /\ target = 0
    /\ rawType = NoEnum /\ m = NilBytes
    /\ data = NilBytes /\ err = "" /\ lastOp = ""
    /\ \E x \in EventDeclarations : recvDecl = DomainEventDefs(x.d, x.ev).domDef[2]
    /\ stream = [open |-> TRUE, msgs |-> <<>>, next |-> 1]
    /\ event = "nil"

\* The peer sends a message.
RecvDeliver ==
    /\ stream.open /\ Len(stream.msgs) < MaxMessages
    /\ \E msg \in Messages : stream' = [stream EXCEPT !.msgs = Append(@, msg)]
    /\ lastOp' = "deliver"
    /\ UNCHANGED <<genVars, enumVars, rawVars, recvDecl, event, data, err>>

\* c.Recv(): it waits while the stream is open and holds no message.
RecvCall ==
    /\ ~stream.open \/ stream.next <= Len(stream.msgs)
    /\ event' = Recv(recvDecl, stream).event
    /\ err' = Recv(recvDecl, stream).err
    /\ stream' = Recv(recvDecl, stream).stream
    /\ lastOp' = "Recv"
    /\ UNCHANGED <<genVars, enumVars, rawVars, recvDecl, data>>

\* The client code closes the stream.
RecvClose ==
    /\ stream.open
    /\ stream' = [stream EXCEPT !.open = FALSE]
    /\ lastOp' = "Close"
    /\ UNCHANGED <<genVars, enumVars, rawVars, recvDecl, event, data, err>>

RecvNext == RecvDeliver \/ RecvCall \/ RecvClose

RecvSpec == RecvInit /\ [][RecvNext]_vars

\* The next message of the open stream does not decode.
NextFails == stream.open /\ stream.next <= Len(stream.msgs) /\ stream.msgs[stream.next].cause # ""
NextDecodes == stream.open /\ stream.next <= Len(stream.msgs) /\ stream.msgs[stream.next].cause = ""

\* C17: a Recv whose message does not decode returns no event and an
\* error that starts with "cdp: ", the domain and event name of the client
\* and " Recv: " and ends with the decoder's error, and leaves the stream
\* open; a Recv that follows it on a message that decodes returns the event
\* and no error.
C17_RecvFailureKeepsStream ==
    /\ [][lastOp' = "Recv" /\ NextFails =>
            /\ event' = "nil"
            /\ \E x \in EventDeclarations :
                  /\ recvDecl = DomainEventDefs(x.d, x.ev).domDef[2]
                  /\ err' = "cdp: " \o x.d.Domain \o Title(x.ev.NameName) \o "Client Recv: "
                            \o stream.msgs[stream.next].cause
            /\ stream'.open]_vars
    /\ [][lastOp = "Recv" /\ err # "" /\ lastOp' = "Recv" /\ NextDecodes =>
            event' = stream.msgs[stream.next].text /\ err' = ""]_vars

\* The first message did not decode, the second did, and Recv has returned
\* the second.
C17_Witness ==
    /\ lastOp = "Recv" /\ stream.open /\ stream.next = 3
    /\ stream.msgs[1].cause # "" /\ stream.msgs[2].cause = ""
    /\ event = stream.msgs[2].text /\ err = ""

====
